---- MODULE Spec2Model ----
(***************************************************************************)
(* Verification model of the litepb C++ code generator                     *)
(* (generator/backends/cpp): the dependency orderer that sorts message     *)
(* definitions, and the wire codec that the generator emits for every      *)
(* message (serialize / parse), executed on byte streams.                  *)
(***************************************************************************)
EXTENDS Integers, Sequences, FiniteSets, TLC

(***************************************************************************)
(* Bounds of the model.                                                    *)
(***************************************************************************)
\* number of top-level messages of a schema file handed to the orderer
MaxMsgs == 3
\* the same, for the schema files that also use oneof members and map fields
MaxShapeMsgs == 2
\* field occurrences in one stream
MaxItems == 2
\* elements of a repeated field in one stream
MaxElems == 2
\* bytes cut off the end of a stream
MaxCut == 2

VARIABLES
  \* ---- CppUtils.topological_sort_messages ----
  messages,       \* the argument: list of top-level DescriptorProto
  dependencies,   \* name -> set of names (dict built by the sort)
  in_degree,      \* name -> remaining unsorted dependencies
  queue,          \* FIFO list of ready names
  sorted_names,   \* names emitted so far
  result,         \* the returned list
  pc,             \* position in topological_sort_messages
  \* ---- the emitted Serializer<M>::parse and Serializer<M>::serialize ----
  syntax,         \* current_proto.syntax
  message,        \* the DescriptorProto whose serializer was generated
  wire,           \* the fields put on the wire, as (number, wire type, payload)
  stream,         \* the input bytes handed to parse
  value,          \* the message instance: parse fills it, serialize reads it
  parse_ret,      \* what parse returned
  map_order,      \* the order in which serialize iterates each unordered_map
  out,            \* the output bytes of serialize
  cpc,            \* position: "parse", "serialize", "end"
  \* ---- ProtoParser._read_varint and the emitted unknown-varint loop ----
  varint_data,    \* the argument data: bytes
  varint_pos,     \* pos
  varint_shift,   \* shift
  varint_result,  \* result
  varint_ret,     \* the returned tuple (result, pos), <<>> before the return
  varint_value,   \* varint_value of the emitted loop over the same bytes
  varint_used,    \* how many bytes the emitted loop has combined
  vpc,            \* position: "loop", "return", "emitted", "end"
  \* ---- SerializationCodegen.generate_all_serializers ----
  ser_all_msgs,   \* the dict all_msgs, in insertion order: (full_name, msg, prefix)
  ser_deps,       \* the dict deps: full_name -> set of full names
  ser_iter,       \* the order in which each set of deps is iterated
  ser_nodes,      \* the sorted keys not yet visited by the outer loop
  ser_visited,    \* the set visited
  ser_sorted,     \* the list result of _topological_sort, as full names
  ser_lines,      \* the serializers emitted, as full names
  spc             \* position: "collect", "graph", "sort", "emit", "end"

ordVars == <<messages, dependencies, in_degree, queue, sorted_names, result, pc>>
codecVars == <<syntax, message, wire, stream, value, parse_ret, map_order, out, cpc>>
varintVars ==
  <<varint_data, varint_pos, varint_shift, varint_result, varint_ret, varint_value,
    varint_used, vpc>>
serVars ==
  <<ser_all_msgs, ser_deps, ser_iter, ser_nodes, ser_visited, ser_sorted, ser_lines, spc>>
vars == <<ordVars, codecVars, varintVars, serVars>>

(***************************************************************************)
(* Helpers on sequences.                                                   *)
(***************************************************************************)
Last(s) == s[Len(s)]

Range(s) == {s[i] : i \in 1..Len(s)}

\* position of the first occurrence of x in s, 0 when absent
IndexOf(s, x) ==
  IF \E i \in 1..Len(s) : s[i] = x
  THEN CHOOSE i \in 1..Len(s) : s[i] = x /\ \A j \in 1..(i - 1) : s[j] # x
  ELSE 0

\* the elements of set S listed in the order of sequence s
RECURSIVE InOrder(_, _)
InOrder(s, S) ==
  IF s = <<>> THEN <<>>
  ELSE (IF Head(s) \in S THEN <<Head(s)>> ELSE <<>>) \o InOrder(Tail(s), S)

(***************************************************************************)
(* Schema model: the protobuf descriptors the generator consumes.          *)
(* A type_name is kept as the list of its dot-separated components, the    *)
(* leading dot of a fully-qualified name giving an empty first component   *)
(* (".pkg.B" is <<"", "pkg", "B">>).                                       *)
(***************************************************************************)
Package == "pkg"

\* message i of a schema file is named NamePool[i]: declaration order is
\* not the alphabetical order
NamePool == <<"B", "A", "D", "C", "E">>

NoOneof == -1

\* FieldDescriptorProto
Field(name, number, type, label, type_name, oneof_index, proto3_optional, packed) ==
  [name |-> name, number |-> number, type |-> type, label |-> label,
   type_name |-> type_name, oneof_index |-> oneof_index,
   proto3_optional |-> proto3_optional, packed |-> packed]

\* DescriptorProto; map_entry is options.map_entry
Message(name, field, nested_type, oneof_decl, map_entry) ==
  [name |-> name, field |-> field, nested_type |-> nested_type,
   oneof_decl |-> oneof_decl, map_entry |-> map_entry]

\* a reference to the top-level message X, as protoc resolves it
TopRef(X) == <<"", Package, X>>

EntryName(X) == X \o "Entry"

\* the field by which message M refers to top-level message X
RefField(M, X, i, kind) ==
  IF kind = "map"
  THEN Field("m" \o X, i, "TYPE_MESSAGE", "LABEL_REPEATED",
             <<"", Package, M, EntryName(X)>>, NoOneof, FALSE, "unset")
  ELSE Field("f" \o X, i, "TYPE_MESSAGE", "LABEL_OPTIONAL", TopRef(X),
             IF kind = "oneof" THEN 0 ELSE NoOneof, FALSE, "unset")

\* the synthetic nested map-entry type of a map<string, X> field
MapEntryType(X) ==
  Message(EntryName(X),
          << Field("key", 1, "TYPE_STRING", "LABEL_OPTIONAL", <<>>, NoOneof, FALSE, "unset"),
             Field("value", 2, "TYPE_MESSAGE", "LABEL_OPTIONAL", TopRef(X), NoOneof, FALSE, "unset") >>,
          <<>>, <<>>, TRUE)

\* message M referring to every message of the list targets, each by a
\* field of the given kind: plain field, oneof member, or map value
RefMessage(M, targets, kind) ==
  Message(M,
          [i \in 1..Len(targets) |-> RefField(M, targets[i], i, kind)],
          IF kind = "map" THEN [i \in 1..Len(targets) |-> MapEntryType(targets[i])] ELSE <<>>,
          IF kind = "oneof" /\ targets # <<>> THEN <<"choice">> ELSE <<>>,
          FALSE)

RefKinds == {"plain", "oneof", "map"}

Names(n) == SubSeq(NamePool, 1, n)

\* the schema files handed to the orderer: n messages named in declaration
\* order, message i referring to the set refs[i] of messages
SchemaFile(n, refs, kind) ==
  [i \in 1..n |-> RefMessage(NamePool[i], InOrder(Names(n), refs[i]), kind)]

(***************************************************************************)
(* CppUtils._get_message_dependencies                                      *)
(***************************************************************************)
StripLeadingDot(type_name) ==
  IF type_name # <<>> /\ type_name[1] = "" THEN Tail(type_name) ELSE type_name

\* variant: the test msg.name != message.name is left out
_get_message_dependencies_self(msg, all_messages) ==
  { Last(StripLeadingDot(msg.field[i].type_name)) : i \in
      { j \in 1..Len(msg.field) :
          /\ msg.field[j].type \in {"TYPE_MESSAGE", "TYPE_ENUM"}
          /\ \E k \in 1..Len(all_messages) :
               all_messages[k].name = Last(StripLeadingDot(msg.field[j].type_name)) } }

_get_message_dependencies(msg, all_messages) ==
  { Last(StripLeadingDot(msg.field[i].type_name)) : i \in
      { j \in 1..Len(msg.field) :
          /\ msg.field[j].type \in {"TYPE_MESSAGE", "TYPE_ENUM"}
          /\ \E k \in 1..Len(all_messages) :
               /\ all_messages[k].name = Last(StripLeadingDot(msg.field[j].type_name))
               /\ all_messages[k].name # msg.name } }

(***************************************************************************)
(* CppUtils.topological_sort_messages, one step per loop iteration.        *)
(***************************************************************************)
MsgNames(msgs) == [i \in 1..Len(msgs) |-> msgs[i].name]

\* msg_map[name]
MsgByName(msgs, name) == msgs[IndexOf(MsgNames(msgs), name)]

\* the names whose in-degree reaches zero when current is emitted, in the
\* iteration order of the dependencies dict (declaration order)
RECURSIVE NewlyReady(_, _, _, _)
NewlyReady(names, deps, deg, current) ==
  IF names = <<>> THEN <<>>
  ELSE (IF current \in deps[Head(names)] /\ deg[Head(names)] - 1 = 0
        THEN <<Head(names)>> ELSE <<>>)
       \o NewlyReady(Tail(names), deps, deg, current)

BuildGraph ==
  /\ pc = "start"
  /\ LET names == MsgNames(messages)
         deps == [name \in Range(names) |->
                    _get_message_dependencies(MsgByName(messages, name), messages)]
         deg == [name \in Range(names) |->
                    Cardinality({d \in deps[name] : d \in Range(names)})]
     IN /\ dependencies' = deps
        /\ in_degree' = deg
        /\ queue' = SelectSeq(names, LAMBDA name : deg[name] = 0)
  /\ sorted_names' = <<>>
  /\ pc' = "loop"
  /\ UNCHANGED <<messages, result>>

\* variant: the queue is used as a stack (queue.pop() instead of queue.pop(0))
PopQueue_lifo ==
  /\ pc = "loop"
  /\ queue # <<>>
  /\ LET current == Last(queue)
     IN /\ sorted_names' = Append(sorted_names, current)
        /\ in_degree' = [name \in DOMAIN in_degree |->
                           IF current \in dependencies[name]
                           THEN in_degree[name] - 1 ELSE in_degree[name]]
        /\ queue' = SubSeq(queue, 1, Len(queue) - 1) \o
                    NewlyReady(MsgNames(messages), dependencies, in_degree, current)
  /\ UNCHANGED <<messages, dependencies, result, pc>>

PopQueue ==
  /\ pc = "loop"
  /\ queue # <<>>
  /\ LET current == Head(queue)
     IN /\ sorted_names' = Append(sorted_names, current)
        /\ in_degree' = [name \in DOMAIN in_degree |->
                           IF current \in dependencies[name]
                           THEN in_degree[name] - 1 ELSE in_degree[name]]
        /\ queue' = Tail(queue) \o
                    NewlyReady(MsgNames(messages), dependencies, in_degree, current)
  /\ UNCHANGED <<messages, dependencies, result, pc>>

\* variant: no cycle check, the sorted part is returned as it is
ReturnSorted_nocheck ==
  /\ pc = "loop"
  /\ queue = <<>>
  /\ result' = [i \in 1..Len(sorted_names) |-> MsgByName(messages, sorted_names[i])]
  /\ pc' = "done"
  /\ UNCHANGED <<messages, dependencies, in_degree, queue, sorted_names>>

ReturnSorted ==
  /\ pc = "loop"
  /\ queue = <<>>
  /\ result' = IF Len(sorted_names) # Len(messages)
               THEN messages
               ELSE [i \in 1..Len(sorted_names) |-> MsgByName(messages, sorted_names[i])]
  /\ pc' = "done"
  /\ UNCHANGED <<messages, dependencies, in_degree, queue, sorted_names>>

\* no serializer is exercised while the orderer runs
\* no varint is being decoded on its own
VarintIdle ==
  /\ varint_data = <<>>
  /\ varint_pos = 0
  /\ varint_shift = 0
  /\ varint_result = 0
  /\ varint_ret = <<>>
  /\ varint_value = 0
  /\ varint_used = 0
  /\ vpc = "end"

CodecIdle ==
  /\ syntax = "proto3"
  /\ message = Message("M", <<>>, <<>>, <<>>, FALSE)
  /\ wire = <<>>
  /\ stream = <<>>
  /\ value = <<>>
  /\ parse_ret = "none"
  /\ map_order = <<>>
  /\ out = <<>>
  /\ cpc = "end"

\* no serializers are being emitted
SerIdle ==
  /\ ser_all_msgs = <<>>
  /\ ser_deps = <<>>
  /\ ser_iter = <<>>
  /\ ser_nodes = <<>>
  /\ ser_visited = {}
  /\ ser_sorted = <<>>
  /\ ser_lines = <<>>
  /\ spc = "end"

OrderInitOf(maxn, kinds) ==
  /\ CodecIdle
  /\ VarintIdle
  /\ SerIdle
  /\ \E n \in 1..maxn, kind \in kinds :
       \E refs \in [1..n -> SUBSET Range(Names(n))] :
          messages = SchemaFile(n, refs, kind)
  /\ dependencies = <<>>
  /\ in_degree = <<>>
  /\ queue = <<>>
  /\ sorted_names = <<>>
  /\ result = <<>>
  /\ pc = "start"

OrderNext ==
  (BuildGraph \/ PopQueue \/ ReturnSorted) /\ UNCHANGED <<codecVars, varintVars, serVars>>

\* schema files whose message-typed fields are plain fields or oneof members
OrderInit == OrderInitOf(MaxMsgs, {"plain", "oneof"})

SpecOrder == OrderInit /\ [][OrderNext]_vars

\* smaller schema files of every field shape: plain, oneof member, map
ShapesInit == OrderInitOf(MaxShapeMsgs, RefKinds)

SpecShapes == ShapesInit /\ [][OrderNext]_vars

(***************************************************************************)
(* Properties of the dependency orderer.                                   *)
(***************************************************************************)
\* the names reachable from the names of S along dependency edges
RECURSIVE DepClosure(_, _)
DepClosure(deps, S) ==
  LET next == S \cup UNION {deps[x] \cap DOMAIN deps : x \in S}
  IN IF next = S THEN S ELSE DepClosure(deps, next)

\* a cycle in the dependency graph deps
HasCycle(deps) ==
  \E x \in DOMAIN deps : x \in DepClosure(deps, deps[x] \cap DOMAIN deps)

NoDuplicates(s) == \A i, j \in 1..Len(s) : s[i] = s[j] => i = j

IsPermutation(s, t) ==
  /\ Len(s) = Len(t)
  /\ \A i \in 1..Len(t) : \E j \in 1..Len(s) : s[j] = t[i]
  /\ \A i \in 1..Len(s) : \E j \in 1..Len(t) : t[j] = s[i]

ResultPos(name) == IndexOf(MsgNames(result), name)

\* the position in the result of the last dependency of name, 0 without one:
\* the moment name becomes ready
ReadyAt(name) ==
  LET ps == {ResultPos(d) : d \in dependencies[name]} \cup {0}
  IN CHOOSE p \in ps : \A q \in ps : q <= p

\* two messages that become ready at the same moment keep declaration order
KeepsDeclarationOrder ==
  \A i, j \in 1..Len(messages) :
    (i < j /\ ReadyAt(messages[i].name) = ReadyAt(messages[j].name))
      => ResultPos(messages[i].name) < ResultPos(messages[j].name)

DependenciesFirst ==
  \A i \in 1..Len(result) : \A d \in dependencies[result[i].name] :
    ResultPos(d) > 0 /\ ResultPos(d) < i

\* C7: for an acyclic dependency graph topological_sort_messages returns a
\* permutation of its input in which every message comes after all the
\* messages it depends on, messages that become ready at the same moment
\* keep their declaration order, and without any dependency the output is
\* the input.
C7_TopologicalOrder ==
  (pc = "done" /\ ~HasCycle(dependencies)) =>
    /\ IsPermutation(result, messages)
    /\ DependenciesFirst
    /\ KeepsDeclarationOrder
    /\ ((\A x \in DOMAIN dependencies : dependencies[x] = {}) => result = messages)

\* an acyclic file was reordered and two of its messages became ready
\* together, after a common dependency
C7_Witness ==
  /\ pc = "done"
  /\ ~HasCycle(dependencies)
  /\ result # messages
  /\ \E i, j \in 1..Len(messages) :
       /\ i < j
       /\ ReadyAt(messages[i].name) > 0
       /\ ReadyAt(messages[i].name) = ReadyAt(messages[j].name)

\* C8: with a cycle through two or more messages the sort ends and returns
\* the input list unchanged; no name is ever queued or emitted twice, which
\* bounds the loop by the number of messages.
C8_CycleFallback ==
  /\ (pc = "done" /\ HasCycle(dependencies)) => result = messages
  /\ NoDuplicates(sorted_names \o queue)
  /\ Len(sorted_names) <= Len(messages)

\* a file with a cycle of which one message was emitted before the loop
\* ran dry
C8_Witness ==
  /\ pc = "done"
  /\ HasCycle(dependencies)
  /\ sorted_names # <<>>
  /\ result = messages

\* the messages that have a field of their own type
SelfReferential ==
  { i \in 1..Len(messages) :
      \E j \in 1..Len(messages[i].field) :
        /\ messages[i].field[j].type = "TYPE_MESSAGE"
        /\ messages[i].field[j].type_name = TopRef(messages[i].name) }

\* C9 as stated: a self-referential message makes the orderer fall back to
\* the declaration order of the whole list.
C9_SelfReferenceFallsBack ==
  (pc = "done" /\ SelfReferential # {}) => result = messages

\* C9 as the code has it: a field of the message's own type adds no
\* dependency; the list is sorted by the other dependencies, and falls back
\* to declaration order only on a cycle through two or more messages.
C9_SelfReferenceIgnored ==
  (pc # "start" /\ SelfReferential # {}) =>
    /\ \A x \in DOMAIN dependencies : x \notin dependencies[x]
    /\ pc = "done" =>
         IF HasCycle(dependencies)
         THEN result = messages
         ELSE /\ MsgNames(result) = sorted_names
              /\ IsPermutation(result, messages)
              /\ DependenciesFirst

\* a self-referential message was moved behind a message declared after it
C9_Witness ==
  /\ pc = "done"
  /\ result # messages
  /\ \E i \in SelfReferential : ResultPos(messages[i].name) > i

(***************************************************************************)
(* The litepb runtime the emitted code calls (ProtoWriter, ProtoReader,    *)
(* UnknownFieldSet): the wire codec of the protobuf encoding.  A stream is *)
(* a sequence of bytes 0..255; a reader position is the number of bytes    *)
(* consumed.  A read yields [ok, v, pos].                                  *)
(***************************************************************************)
WIRE_TYPE_VARINT == 0
WIRE_TYPE_FIXED64 == 1
WIRE_TYPE_LENGTH_DELIMITED == 2
WIRE_TYPE_START_GROUP == 3
WIRE_TYPE_END_GROUP == 4
WIRE_TYPE_FIXED32 == 5

\* a varint longer than this many bytes is malformed
MaxVarintBytes == 10

Failed(pos) == [ok |-> FALSE, v |-> 0, pos |-> pos]

RECURSIVE SumSeq(_)
SumSeq(ns) == IF ns = <<>> THEN 0 ELSE Head(ns) + SumSeq(Tail(ns))

RECURSIVE Flatten(_)
Flatten(ss) == IF ss = <<>> THEN <<>> ELSE Head(ss) \o Flatten(Tail(ss))

\* the ten bytes of a negative value sign-extended to 64 bits
RECURSIVE SignExtended(_, _)
SignExtended(v, i) ==
  IF i = MaxVarintBytes THEN <<1>>
  ELSE <<128 + (v % 128)>> \o SignExtended(v \div 128, i + 1)

\* ProtoWriter::write_varint of static_cast<uint64_t>(v)
RECURSIVE write_varint(_)
write_varint(v) ==
  IF v < 0 THEN SignExtended(v, 1)
  ELSE IF v < 128 THEN <<v>>
  ELSE <<128 + (v % 128)>> \o write_varint(v \div 128)

\* ProtoWriter::varint_size
varint_size(v) == Len(write_varint(v))

\* ProtoWriter::write_tag
write_tag(field_number, wire_type) == write_varint(field_number * 8 + wire_type)

\* zigzag of a signed value: (n << 1) ^ (n >> (bits - 1))
ZigZag(n) == IF n >= 0 THEN 2 * n ELSE -2 * n - 1

UnZigZag(u) == IF u % 2 = 0 THEN u \div 2 ELSE -((u + 1) \div 2)

\* little-endian fixed-width bytes of a bit pattern
RECURSIVE write_fixed(_, _)
write_fixed(width, v) ==
  IF width = 0 THEN <<>> ELSE <<v % 256>> \o write_fixed(width - 1, v \div 256)

RECURSIVE FromLittleEndian(_)
FromLittleEndian(bytes) ==
  IF bytes = <<>> THEN 0
  ELSE Head(bytes) + (IF Tail(bytes) = <<>> THEN 0 ELSE 256 * FromLittleEndian(Tail(bytes)))

RECURSIVE Pow128(_)
Pow128(i) == IF i = 0 THEN 1 ELSE 128 * Pow128(i - 1)

\* ProtoReader::read_varint: 7 data bits per byte, least significant group
\* first; fails when the input ends inside the varint or no byte within
\* MaxVarintBytes ends it
RECURSIVE ReadVarintFrom(_, _, _, _)
ReadVarintFrom(s, pos, i, acc) ==
  IF i >= MaxVarintBytes \/ pos >= Len(s) THEN Failed(pos)
  ELSE LET b == s[pos + 1]
           acc2 == IF b % 128 = 0 THEN acc ELSE acc + (b % 128) * Pow128(i)
       IN IF b < 128 THEN [ok |-> TRUE, v |-> acc2, pos |-> pos + 1]
          ELSE ReadVarintFrom(s, pos + 1, i + 1, acc2)

read_varint(s, pos) == ReadVarintFrom(s, pos, 0, 0)

\* InputStream::read of n bytes
read_raw(s, pos, n) ==
  IF pos + n > Len(s) THEN Failed(pos)
  ELSE [ok |-> TRUE, v |-> SubSeq(s, pos + 1, pos + n), pos |-> pos + n]

read_fixed(width, s, pos) ==
  LET r == read_raw(s, pos, width)
  IN IF r.ok THEN [ok |-> TRUE, v |-> FromLittleEndian(r.v), pos |-> r.pos] ELSE r

\* length prefix, then that many bytes (read_string, read_bytes)
read_length_delimited(s, pos) ==
  LET n == read_varint(s, pos)
  IN IF n.ok THEN read_raw(s, n.pos, n.v) ELSE n

\* ProtoReader::read_tag: v is <<field_number, wire_type>>
read_tag(s, pos) ==
  LET t == read_varint(s, pos)
  IN IF t.ok THEN [ok |-> TRUE, v |-> <<t.v \div 8, t.v % 8>>, pos |-> t.pos] ELSE t

\* ProtoReader::skip_field; v is not used.  A group is skipped up to its
\* END_GROUP tag.
RECURSIVE skip_field(_, _, _)
RECURSIVE SkipGroup(_, _)
SkipGroup(s, pos) ==
  LET t == read_tag(s, pos)
  IN IF ~t.ok THEN t
     ELSE IF t.v[2] = WIRE_TYPE_END_GROUP THEN [ok |-> TRUE, v |-> 0, pos |-> t.pos]
     ELSE LET r == skip_field(t.v[2], s, t.pos)
          IN IF r.ok THEN SkipGroup(s, r.pos) ELSE r

skip_field(wire_type, s, pos) ==
  CASE wire_type = WIRE_TYPE_VARINT -> read_varint(s, pos)
    [] wire_type = WIRE_TYPE_FIXED64 -> read_raw(s, pos, 8)
    [] wire_type = WIRE_TYPE_FIXED32 -> read_raw(s, pos, 4)
    [] wire_type = WIRE_TYPE_LENGTH_DELIMITED -> read_length_delimited(s, pos)
    [] wire_type = WIRE_TYPE_START_GROUP -> SkipGroup(s, pos)
    [] OTHER -> Failed(pos)

\* the bytes of s a read r that started at pos has consumed
Consumed(s, pos, r) ==
  IF r.ok THEN [ok |-> TRUE, v |-> SubSeq(s, pos + 1, r.pos), pos |-> r.pos] ELSE r

\* ProtoReader::capture_unknown_field: the raw bytes of the payload that
\* follows the tag, for a length-delimited field with its length prefix
capture_unknown_field(wire_type, s, pos) == Consumed(s, pos, skip_field(wire_type, s, pos))

\* UnknownFieldSet::add_varint, add_fixed32, add_fixed64,
\* add_length_delimited, add_group: one entry appended per call; data is
\* <<value>> for a varint or fixed-width entry, the bytes for the others
UnknownField(number, wire_type, data) ==
  [number |-> number, wire_type |-> wire_type, data |-> data]

\* UnknownFieldSet::serialize_to: every entry with its number, wire type and
\* bytes, in capture order
UnknownFieldBytes(u) ==
  write_tag(u.number, u.wire_type) \o
  CASE u.wire_type = WIRE_TYPE_VARINT -> write_varint(u.data[1])
    [] u.wire_type = WIRE_TYPE_FIXED32 -> write_fixed(4, u.data[1])
    [] u.wire_type = WIRE_TYPE_FIXED64 -> write_fixed(8, u.data[1])
    [] u.wire_type = WIRE_TYPE_LENGTH_DELIMITED -> write_varint(Len(u.data)) \o u.data
    [] OTHER -> u.data

serialize_to(unknown_fields) ==
  Flatten([i \in 1..Len(unknown_fields) |-> UnknownFieldBytes(unknown_fields[i])])

(***************************************************************************)
(* TypeMapper: the tables of the generator.                                *)
(***************************************************************************)
VarintTypes == {"TYPE_INT64", "TYPE_UINT64", "TYPE_INT32", "TYPE_UINT32", "TYPE_BOOL"}

ScalarTypes ==
  {"TYPE_DOUBLE", "TYPE_FLOAT", "TYPE_INT64", "TYPE_UINT64", "TYPE_INT32",
   "TYPE_FIXED64", "TYPE_FIXED32", "TYPE_BOOL", "TYPE_STRING", "TYPE_BYTES",
   "TYPE_UINT32", "TYPE_SFIXED32", "TYPE_SFIXED64", "TYPE_SINT32", "TYPE_SINT64"}

\* TypeMapper.CPP_TYPE_MAP / get_cpp_type
get_cpp_type(type) ==
  CASE type = "TYPE_DOUBLE" -> "double"
    [] type = "TYPE_FLOAT" -> "float"
    [] type \in {"TYPE_INT64", "TYPE_SFIXED64", "TYPE_SINT64"} -> "int64_t"
    [] type \in {"TYPE_UINT64", "TYPE_FIXED64"} -> "uint64_t"
    [] type \in {"TYPE_INT32", "TYPE_SFIXED32", "TYPE_SINT32"} -> "int32_t"
    [] type \in {"TYPE_FIXED32", "TYPE_UINT32"} -> "uint32_t"
    [] type = "TYPE_BOOL" -> "bool"
    [] type = "TYPE_STRING" -> "std::string"
    [] type = "TYPE_BYTES" -> "std::vector<uint8_t>"
    [] OTHER -> ""

\* TypeMapper.WIRE_TYPE_MAP / get_wire_type
get_wire_type(type) ==
  CASE type \in {"TYPE_DOUBLE", "TYPE_FIXED64", "TYPE_SFIXED64"} -> WIRE_TYPE_FIXED64
    [] type \in {"TYPE_FLOAT", "TYPE_FIXED32", "TYPE_SFIXED32"} -> WIRE_TYPE_FIXED32
    [] type \in {"TYPE_STRING", "TYPE_BYTES", "TYPE_MESSAGE"} -> WIRE_TYPE_LENGTH_DELIMITED
    [] OTHER -> WIRE_TYPE_VARINT

\* TypeMapper.DEFAULT_VALUES.get(type, None): the C++ literal, "" for None
DEFAULT_VALUES(type) ==
  CASE type = "TYPE_DOUBLE" -> "0.0"
    [] type = "TYPE_FLOAT" -> "0.0f"
    [] type = "TYPE_BOOL" -> "false"
    [] type = "TYPE_STRING" -> "\"\""
    [] type = "TYPE_BYTES" -> "{}"
    [] type \in ScalarTypes -> "0"
    [] OTHER -> ""

\* TypeMapper.get_serialization_method
get_serialization_method(type) ==
  CASE type = "TYPE_DOUBLE" -> "write_double"
    [] type = "TYPE_FLOAT" -> "write_float"
    [] type = "TYPE_FIXED64" -> "write_fixed64"
    [] type = "TYPE_FIXED32" -> "write_fixed32"
    [] type = "TYPE_STRING" -> "write_string"
    [] type = "TYPE_BYTES" -> "write_bytes"
    [] type = "TYPE_SFIXED32" -> "write_sfixed32"
    [] type = "TYPE_SFIXED64" -> "write_sfixed64"
    [] type = "TYPE_SINT32" -> "write_sint32"
    [] type = "TYPE_SINT64" -> "write_sint64"
    [] OTHER -> "write_varint"

\* get_deserialization_method with the zigzag types read as plain varints
get_deserialization_method_plain(type) ==
  CASE type = "TYPE_DOUBLE" -> "read_double"
    [] type = "TYPE_FLOAT" -> "read_float"
    [] type \in {"TYPE_FIXED64", "TYPE_SFIXED64"} -> "read_fixed64"
    [] type \in {"TYPE_FIXED32", "TYPE_SFIXED32"} -> "read_fixed32"
    [] type = "TYPE_STRING" -> "read_string"
    [] type = "TYPE_BYTES" -> "read_bytes"
    [] OTHER -> "read_varint"

\* TypeMapper.get_deserialization_method
get_deserialization_method(type) ==
  CASE type = "TYPE_DOUBLE" -> "read_double"
    [] type = "TYPE_FLOAT" -> "read_float"
    [] type \in {"TYPE_FIXED64", "TYPE_SFIXED64"} -> "read_fixed64"
    [] type \in {"TYPE_FIXED32", "TYPE_SFIXED32"} -> "read_fixed32"
    [] type = "TYPE_STRING" -> "read_string"
    [] type = "TYPE_BYTES" -> "read_bytes"
    [] type = "TYPE_SINT32" -> "read_sint32"
    [] type = "TYPE_SINT64" -> "read_sint64"
    [] OTHER -> "read_varint"

\* get_packed_size_expression with the zigzag types sized as plain varints
get_packed_size_expression_plain(type) ==
  CASE type \in VarintTypes \cup {"TYPE_ENUM", "TYPE_SINT32", "TYPE_SINT64"} -> "varint_size"
    [] type \in {"TYPE_FIXED32", "TYPE_SFIXED32", "TYPE_FLOAT"} -> "fixed32_size"
    [] type \in {"TYPE_FIXED64", "TYPE_SFIXED64", "TYPE_DOUBLE"} -> "fixed64_size"
    [] OTHER -> "varint_size"

\* TypeMapper.get_packed_size_expression: the ProtoWriter size function named
\* by the emitted expression
get_packed_size_expression(type) ==
  CASE type \in VarintTypes \cup {"TYPE_ENUM"} -> "varint_size"
    [] type = "TYPE_SINT32" -> "sint32_size"
    [] type = "TYPE_SINT64" -> "sint64_size"
    [] type \in {"TYPE_FIXED32", "TYPE_SFIXED32", "TYPE_FLOAT"} -> "fixed32_size"
    [] type \in {"TYPE_FIXED64", "TYPE_SFIXED64", "TYPE_DOUBLE"} -> "fixed64_size"
    [] OTHER -> "varint_size"

\* TypeMapper.get_default_check: the emitted condition, "None" when the
\* write is not guarded
get_default_check(field) ==
  IF field.type = "TYPE_MESSAGE" THEN "None"
  ELSE IF DEFAULT_VALUES(field.type) = "" THEN "None"
  ELSE IF field.type \in {"TYPE_STRING", "TYPE_BYTES"} THEN "!empty()"
  ELSE IF field.type = "TYPE_BOOL" THEN "value"
  ELSE "value != default"

\* TypeMapper.qualify_type_name: leading dot dropped, "." turned into "::"
qualify_type_name(type_name) == StripLeadingDot(type_name)

(***************************************************************************)
(* FieldUtils                                                              *)
(***************************************************************************)
\* type_name.split('.')[-1]
LastComponent(type_name) == IF type_name = <<>> THEN "" ELSE Last(type_name)

\* FieldUtils.uses_optional
uses_optional(field, syn) ==
  IF syn = "proto2" THEN field.label \in {"LABEL_REQUIRED", "LABEL_OPTIONAL"}
  ELSE field.proto3_optional

\* is_field_packed without the test of the explicit option
is_field_packed_nooption(field, syn) ==
  IF field.label # "LABEL_REPEATED" THEN FALSE
  ELSE IF field.type \in {"TYPE_STRING", "TYPE_BYTES", "TYPE_MESSAGE", "TYPE_GROUP"} THEN FALSE
  ELSE IF syn = "proto3"
       THEN field.type \in (ScalarTypes \cup {"TYPE_ENUM"}) \ {"TYPE_STRING", "TYPE_BYTES"}
       ELSE FALSE

\* FieldUtils.is_field_packed; field.packed is "unset" without the option
is_field_packed(field, syn) ==
  IF field.label # "LABEL_REPEATED" THEN FALSE
  ELSE IF field.type \in {"TYPE_STRING", "TYPE_BYTES", "TYPE_MESSAGE", "TYPE_GROUP"} THEN FALSE
  ELSE IF field.packed # "unset" THEN field.packed = "true"
  ELSE IF syn = "proto3"
       THEN field.type \in (ScalarTypes \cup {"TYPE_ENUM"}) \ {"TYPE_STRING", "TYPE_BYTES"}
       ELSE FALSE

\* CppGenerator.is_field_packed, on the names of label and type
CppGenerator_is_field_packed(field, syn) ==
  IF field.label # "LABEL_REPEATED" THEN FALSE
  ELSE IF field.type \in {"TYPE_STRING", "TYPE_BYTES", "TYPE_MESSAGE", "TYPE_GROUP"} THEN FALSE
  ELSE IF field.packed # "unset" THEN field.packed = "true"
  ELSE IF syn = "proto3"
       THEN field.type \in
              {"TYPE_INT32", "TYPE_INT64", "TYPE_UINT32", "TYPE_UINT64",
               "TYPE_SINT32", "TYPE_SINT64", "TYPE_BOOL", "TYPE_ENUM",
               "TYPE_FIXED32", "TYPE_SFIXED32", "TYPE_FIXED64", "TYPE_SFIXED64",
               "TYPE_FLOAT", "TYPE_DOUBLE"}
       ELSE FALSE

\* the names of the nested types that carry the map_entry option
MapEntryNames(msg) ==
  {msg.nested_type[i].name : i \in {j \in 1..Len(msg.nested_type) : msg.nested_type[j].map_entry}}

\* map_entries[name]: the last nested map-entry type of that name
MapEntryByName(msg, name) ==
  LET idx == {j \in 1..Len(msg.nested_type) :
                msg.nested_type[j].map_entry /\ msg.nested_type[j].name = name}
  IN msg.nested_type[CHOOSE j \in idx : \A k \in idx : k <= j]

\* the last field of a map-entry type with the given number, <<>> for None
EntryField(entry, number) ==
  LET idx == {j \in 1..Len(entry.field) : entry.field[j].number = number}
  IN IF idx = {} THEN <<>> ELSE <<entry.field[CHOOSE j \in idx : \A k \in idx : k <= j]>>

IsMapTyped(msg, field) ==
  field.type = "TYPE_MESSAGE" /\ LastComponent(field.type_name) \in MapEntryNames(msg)

\* models.MapFieldInfo
MapFieldInfo(field, key_field, value_field) ==
  [name |-> field.name, number |-> field.number,
   key_field |-> key_field, value_field |-> value_field]

\* FieldUtils.extract_maps_from_message
RECURSIVE MapsOf(_, _)
MapsOf(msg, fields) ==
  IF fields = <<>> THEN <<>>
  ELSE LET field == Head(fields)
           entry == MapEntryByName(msg, LastComponent(field.type_name))
       IN (IF IsMapTyped(msg, field) /\ EntryField(entry, 1) # <<>> /\ EntryField(entry, 2) # <<>>
           THEN <<MapFieldInfo(field, EntryField(entry, 1)[1], EntryField(entry, 2)[1])>>
           ELSE <<>>)
          \o MapsOf(msg, Tail(fields))

extract_maps_from_message(msg) == MapsOf(msg, msg.field)

\* the member test without the exception for proto3 optional fields
IsOneofMember_synthetic(field) == field.oneof_index # NoOneof

IsOneofMember(field) == field.oneof_index # NoOneof /\ ~field.proto3_optional

\* models.OneofInfo
OneofInfo(name, fields) == [name |-> name, fields |-> fields]

\* FieldUtils.extract_oneofs_from_message; oneof_index counts from 0
RECURSIVE OneofsFrom(_, _)
OneofsFrom(msg, idx) ==
  IF idx >= Len(msg.oneof_decl) THEN <<>>
  ELSE LET members == SelectSeq(msg.field,
                        LAMBDA f : IsOneofMember(f) /\ f.oneof_index = idx)
       IN (IF members # <<>> THEN <<OneofInfo(msg.oneof_decl[idx + 1], members)>> ELSE <<>>)
          \o OneofsFrom(msg, idx + 1)

extract_oneofs_from_message(msg) == OneofsFrom(msg, 0)

\* FieldUtils.get_non_oneof_fields
get_non_oneof_fields(msg) ==
  SelectSeq(msg.field, LAMBDA f : ~IsOneofMember(f) /\ ~IsMapTyped(msg, f))

(***************************************************************************)
(* Message instances.  A field holds: a number for a numeric, bool (0, 1)  *)
(* or enum field and the bit pattern for float and double; a byte sequence *)
(* for string and bytes; for std::optional the empty sequence or <<v>>;    *)
(* for a repeated field the sequence of its elements; for a map a set of   *)
(* <<key, value>> pairs with distinct keys; for a oneof the held           *)
(* alternative of the std::variant as [T, v], T being the C++ type.        *)
(***************************************************************************)
\* the messages of the file besides the one under test: types of fields
Inner ==
  Message("Inner",
          <<Field("x", 1, "TYPE_INT32", "LABEL_OPTIONAL", <<>>, NoOneof, FALSE, "unset")>>,
          <<>>, <<>>, FALSE)

\* a message that embeds Inner: two levels below the message under test
Middle ==
  Message("Middle",
          <<Field("i", 1, "TYPE_MESSAGE", "LABEL_OPTIONAL", TopRef("Inner"), NoOneof, FALSE,
                  "unset")>>,
          <<>>, <<>>, FALSE)

\* a user-defined message named like the entry type of a map field m; it
\* is declared in another message, Other
UserEntry ==
  Message("MEntry",
          <<Field("x", 1, "TYPE_INT32", "LABEL_OPTIONAL", <<>>, NoOneof, FALSE, "unset")>>,
          <<>>, <<>>, FALSE)

CodecFile == <<Inner, Middle, UserEntry>>

\* the descriptor of the C++ type a message-typed field names
ResolveMessage(type_name) ==
  MsgByName(CodecFile, LastComponent(type_name))

monostate == [T |-> <<"std::monostate">>, v |-> 0]

\* SerializationCodegen._get_oneof_field_cpp_type, as the list of the
\* "::"-separated components of the type
_get_oneof_field_cpp_type(field) ==
  IF field.type \in {"TYPE_MESSAGE", "TYPE_ENUM"}
  THEN qualify_type_name(field.type_name)
  ELSE <<get_cpp_type(field.type)>>

\* MessageCodegen.generate_message_definition: the alternatives of the
\* std::variant of a oneof, equal types kept once
RECURSIVE Dedup(_, _)
Dedup(types, seen) ==
  IF types = <<>> THEN <<>>
  ELSE (IF Head(types) \in seen THEN <<>> ELSE <<Head(types)>>)
       \o Dedup(Tail(types), seen \cup {Head(types)})

variant_types(oneof) ==
  <<monostate.T>> \o
  Dedup([i \in 1..Len(oneof.fields) |-> _get_oneof_field_cpp_type(oneof.fields[i])], {})

\* MessageCodegen._get_field_default and the default construction of the
\* members of the generated struct
RECURSIVE DefaultMessage(_, _)
DefaultField(field, syn) ==
  IF field.label = "LABEL_REPEATED" \/ uses_optional(field, syn) THEN <<>>
  ELSE IF field.type = "TYPE_MESSAGE" THEN DefaultMessage(ResolveMessage(field.type_name), syn)
  ELSE IF field.type \in {"TYPE_STRING", "TYPE_BYTES"} THEN <<>>
  ELSE 0

DefaultMessage(msg, syn) ==
  LET regular == get_non_oneof_fields(msg)
      maps == extract_maps_from_message(msg)
      oneofs == extract_oneofs_from_message(msg)
      names == {regular[i].name : i \in 1..Len(regular)}
                 \cup {maps[i].name : i \in 1..Len(maps)}
                 \cup {oneofs[i].name : i \in 1..Len(oneofs)}
  IN [fields |-> [n \in names |->
                    IF \E i \in 1..Len(regular) : regular[i].name = n
                    THEN DefaultField(regular[CHOOSE i \in 1..Len(regular) : regular[i].name = n], syn)
                    ELSE IF \E i \in 1..Len(maps) : maps[i].name = n THEN {}
                    ELSE monostate],
      unknown_fields |-> <<>>]

\* assignment to a member of the struct
SetField(val, name, v) == [val EXCEPT !.fields[name] = v]

(***************************************************************************)
(* The serialize function emitted by SerializationCodegen, executed.       *)
(***************************************************************************)
\* the ProtoWriter call named by the emitted code
WriterCall(method, v) ==
  CASE method = "write_varint" -> write_varint(v)
    [] method \in {"write_sint32", "write_sint64"} -> write_varint(ZigZag(v))
    [] method \in {"write_fixed32", "write_sfixed32", "write_float"} -> write_fixed(4, v)
    [] method \in {"write_fixed64", "write_sfixed64", "write_double"} -> write_fixed(8, v)
    [] method \in {"write_string", "write_bytes"} -> write_varint(Len(v)) \o v

\* the ProtoWriter size function named by the emitted code
SizeCall(size_fn, v) ==
  CASE size_fn = "varint_size" -> varint_size(v)
    [] size_fn \in {"sint32_size", "sint64_size"} -> varint_size(ZigZag(v))
    [] size_fn = "fixed32_size" -> 4
    [] size_fn = "fixed64_size" -> 8

\* the iteration order of a std::unordered_map: order[name] when given,
\* else an arbitrary fixed order
RECURSIVE AnyOrder(_)
AnyOrder(S) ==
  IF S = {} THEN <<>> ELSE LET x == CHOOSE x \in S : TRUE IN <<x>> \o AnyOrder(S \ {x})

MapKeys(entries) == {e[1] : e \in entries}

MapGet(entries, key) == (CHOOSE e \in entries : e[1] = key)[2]

\* no order given
NoOrder == [n \in {} |-> <<>>]

KeyOrder(order, name, entries) ==
  IF name \in DOMAIN order THEN order[name] ELSE AnyOrder(MapKeys(entries))

RECURSIVE SerializeMessage(_, _, _, _)

\* the payload written after the tag of a singular, optional or unpacked
\* repeated element (generate_field_write, the same chain in each branch)
WritePayload(field, syn, v) ==
  IF field.type = "TYPE_MESSAGE"
  THEN LET temp_stream == SerializeMessage(ResolveMessage(field.type_name), syn, v, NoOrder)
       IN write_varint(Len(temp_stream)) \o temp_stream
  ELSE IF field.type = "TYPE_GROUP"
  THEN SerializeMessage(ResolveMessage(field.type_name), syn, v, NoOrder)
  ELSE IF field.type = "TYPE_ENUM" THEN write_varint(v)
  ELSE WriterCall(get_serialization_method(field.type), v)

\* SerializationCodegen._generate_packed_write_value
_generate_packed_write_value(type, item) ==
  IF type = "TYPE_ENUM" THEN write_varint(item)
  ELSE IF type = "TYPE_SFIXED32" THEN WriterCall("write_fixed32", item)
  ELSE IF type = "TYPE_SFIXED64" THEN WriterCall("write_fixed64", item)
  ELSE WriterCall(get_serialization_method(type), item)

\* whether the guard emitted from get_default_check lets the write happen
DefaultCheckPasses(check, v) ==
  CASE check = "None" -> TRUE
    [] check = "!empty()" -> v # <<>>
    [] check = "value" -> v # 0
    [] check = "value != default" -> v # 0

\* generate_field_write with the zero-value guard of the implicit case also
\* around the write of a field with explicit presence
generate_field_write_suppressed(field, syn, v) ==
  LET tag == write_tag(field.number, get_wire_type(field.type))
  IN IF field.label = "LABEL_REPEATED"
     THEN IF is_field_packed(field, syn)
          THEN IF v # <<>>
               THEN LET packed_size ==
                          SumSeq([i \in 1..Len(v) |->
                                    SizeCall(get_packed_size_expression(field.type), v[i])])
                    IN write_tag(field.number, WIRE_TYPE_LENGTH_DELIMITED)
                       \o write_varint(packed_size)
                       \o Flatten([i \in 1..Len(v) |-> _generate_packed_write_value(field.type, v[i])])
               ELSE <<>>
          ELSE Flatten([i \in 1..Len(v) |-> tag \o WritePayload(field, syn, v[i])])
     ELSE IF uses_optional(field, syn)
     THEN IF v # <<>> /\ DefaultCheckPasses(get_default_check(field), v[1])
          THEN tag \o WritePayload(field, syn, v[1])
          ELSE <<>>
     ELSE IF syn = "proto3" /\ ~DefaultCheckPasses(get_default_check(field), v)
     THEN <<>>
     ELSE tag \o WritePayload(field, syn, v)

\* SerializationCodegen.generate_field_write
generate_field_write(field, syn, v) ==
  LET tag == write_tag(field.number, get_wire_type(field.type))
  IN IF field.label = "LABEL_REPEATED"
     THEN IF is_field_packed(field, syn)
          THEN IF v # <<>>
               THEN LET packed_size ==
                          SumSeq([i \in 1..Len(v) |->
                                    SizeCall(get_packed_size_expression(field.type), v[i])])
                    IN write_tag(field.number, WIRE_TYPE_LENGTH_DELIMITED)
                       \o write_varint(packed_size)
                       \o Flatten([i \in 1..Len(v) |-> _generate_packed_write_value(field.type, v[i])])
               ELSE <<>>
          ELSE Flatten([i \in 1..Len(v) |-> tag \o WritePayload(field, syn, v[i])])
     ELSE IF uses_optional(field, syn)
     THEN IF v # <<>> THEN tag \o WritePayload(field, syn, v[1]) ELSE <<>>
     ELSE IF syn = "proto3" /\ ~DefaultCheckPasses(get_default_check(field), v)
     THEN <<>>
     ELSE tag \o WritePayload(field, syn, v)

\* the entry_size the emitted code computes for one map entry
MapEntrySize(map_field, syn, key, val) ==
  LET key_method == get_serialization_method(map_field.key_field.type)
      val_method == get_serialization_method(map_field.value_field.type)
      key_tag == varint_size(1 * 8 + get_wire_type(map_field.key_field.type))
      key_size ==
        CASE key_method = "write_string" -> varint_size(Len(key)) + Len(key)
          [] key_method = "write_varint" -> varint_size(key)
          [] key_method \in {"write_fixed32", "write_sfixed32"} -> 4
          [] key_method \in {"write_fixed64", "write_sfixed64"} -> 8
          [] OTHER -> 0
      val_tag == varint_size(2 * 8 + get_wire_type(map_field.value_field.type))
      msg_stream == SerializeMessage(ResolveMessage(map_field.value_field.type_name), syn, val, NoOrder)
      val_size ==
        CASE map_field.value_field.type = "TYPE_MESSAGE" ->
               varint_size(Len(msg_stream)) + Len(msg_stream)
          [] val_method = "write_string" -> varint_size(Len(val)) + Len(val)
          [] val_method = "write_varint" -> varint_size(val)
          [] val_method \in {"write_fixed32", "write_sfixed32"} -> 4
          [] val_method \in {"write_fixed64", "write_sfixed64"} -> 8
          [] OTHER -> 0
  IN key_tag + key_size + val_tag + val_size

\* the bytes the emitted code writes for one map entry
MapEntryBytes(map_field, syn, key, val) ==
  LET key_method == get_serialization_method(map_field.key_field.type)
      val_method == get_serialization_method(map_field.value_field.type)
      msg_stream == SerializeMessage(ResolveMessage(map_field.value_field.type_name), syn, val, NoOrder)
  IN write_tag(map_field.number, WIRE_TYPE_LENGTH_DELIMITED)
     \o write_varint(MapEntrySize(map_field, syn, key, val))
     \o write_tag(1, get_wire_type(map_field.key_field.type))
     \o WriterCall(key_method, key)
     \o write_tag(2, get_wire_type(map_field.value_field.type))
     \o (IF map_field.value_field.type = "TYPE_MESSAGE"
         THEN write_varint(Len(msg_stream)) \o msg_stream
         ELSE IF map_field.value_field.type = "TYPE_ENUM" THEN write_varint(val)
         ELSE WriterCall(val_method, val))

\* SerializationCodegen.generate_map_write, the entries visited in key_order
generate_map_write(map_field, syn, entries, key_order) ==
  Flatten([i \in 1..Len(key_order) |->
             MapEntryBytes(map_field, syn, key_order[i], MapGet(entries, key_order[i]))])

\* SerializationCodegen.generate_oneof_write: std::visit with the chain of
\* if constexpr (std::is_same_v<T, type of member>)
generate_oneof_write(oneof, syn, held) ==
  LET matching == {i \in 1..Len(oneof.fields) :
                     _get_oneof_field_cpp_type(oneof.fields[i]) = held.T}
  IN IF held.T = monostate.T \/ matching = {} THEN <<>>
     ELSE LET field == oneof.fields[CHOOSE i \in matching : \A j \in matching : i <= j]
          IN write_tag(field.number, get_wire_type(field.type))
             \o (IF field.type \in {"TYPE_MESSAGE", "TYPE_GROUP"}
                 THEN SerializeMessage(ResolveMessage(field.type_name), syn, held.v, NoOrder)
                 ELSE IF field.type = "TYPE_ENUM" THEN write_varint(held.v)
                 ELSE WriterCall(get_serialization_method(field.type), held.v))

\* a serialize that writes value.unknown_fields before the known fields
SerializeMessage_unknown_first(msg, syn, val, order) ==
  serialize_to(val.unknown_fields)
  \o Flatten([i \in 1..Len(get_non_oneof_fields(msg)) |->
               generate_field_write(get_non_oneof_fields(msg)[i], syn,
                                    val.fields[get_non_oneof_fields(msg)[i].name])])
  \o Flatten([i \in 1..Len(extract_maps_from_message(msg)) |->
               generate_map_write(extract_maps_from_message(msg)[i], syn,
                                  val.fields[extract_maps_from_message(msg)[i].name],
                                  KeyOrder(order, extract_maps_from_message(msg)[i].name,
                                           val.fields[extract_maps_from_message(msg)[i].name]))])
  \o Flatten([i \in 1..Len(extract_oneofs_from_message(msg)) |->
               generate_oneof_write(extract_oneofs_from_message(msg)[i], syn,
                                    val.fields[extract_oneofs_from_message(msg)[i].name])])

\* SerializationCodegen._generate_single_serializer: Serializer<M>::serialize
SerializeMessage(msg, syn, val, order) ==
  LET regular == get_non_oneof_fields(msg)
      maps == extract_maps_from_message(msg)
      oneofs == extract_oneofs_from_message(msg)
  IN Flatten([i \in 1..Len(regular) |->
                generate_field_write(regular[i], syn, val.fields[regular[i].name])])
     \o Flatten([i \in 1..Len(maps) |->
                generate_map_write(maps[i], syn, val.fields[maps[i].name],
                                   KeyOrder(order, maps[i].name, val.fields[maps[i].name]))])
     \o Flatten([i \in 1..Len(oneofs) |->
                generate_oneof_write(oneofs[i], syn, val.fields[oneofs[i].name])])
     \o serialize_to(val.unknown_fields)

(***************************************************************************)
(* The parse function emitted by SerializationCodegen, executed.  A read   *)
(* case yields [ok, value, pos]: ok is FALSE where the emitted code        *)
(* returns false.                                                          *)
(***************************************************************************)
\* read_sint32, read_sint64: the varint r decoded from zigzag
ZigZagDecoded(r) == IF r.ok THEN [r EXCEPT !.v = UnZigZag(r.v)] ELSE r

\* the ProtoReader call named by the emitted code
ReaderCall(method, s, pos) ==
  CASE method = "read_varint" -> read_varint(s, pos)
    [] method \in {"read_sint32", "read_sint64"} -> ZigZagDecoded(read_varint(s, pos))
    [] method \in {"read_fixed32", "read_float"} -> read_fixed(4, s, pos)
    [] method \in {"read_fixed64", "read_double"} -> read_fixed(8, s, pos)
    [] method \in {"read_string", "read_bytes"} -> read_length_delimited(s, pos)

\* the cast of the temporary r to the field's type: bool is temp != 0
CastTo(type, r) ==
  IF r.ok /\ type = "TYPE_BOOL" THEN [r EXCEPT !.v = IF r.v # 0 THEN 1 ELSE 0] ELSE r

\* the chain emitted for one scalar or enum value (the same in the singular,
\* optional, packed, unpacked, map and oneof read code): enum and varint
\* types through a uint64 temporary and a cast, bool as temp != 0, sfixed
\* through an unsigned temporary and memcpy, the rest read in place
ReadScalar(type, s, pos) == CastTo(type, ReaderCall(get_deserialization_method(type), s, pos))

Done(val, pos) == [ok |-> TRUE, value |-> val, pos |-> pos]

Abort(val, pos) == [ok |-> FALSE, value |-> val, pos |-> pos]

\* "if (!read) return false;" and then, with the value r.v that was read:
\* value.name.push_back(v)
PushBack(val, name, r) ==
  IF r.ok THEN Done(SetField(val, name, Append(val.fields[name], r.v)), r.pos)
  ELSE Abort(val, r.pos)

\* value.name = v
Assign(val, name, r) ==
  IF r.ok THEN Done(SetField(val, name, r.v), r.pos) ELSE Abort(val, r.pos)

\* value.name = v for a std::optional member
AssignOptional(val, name, r) ==
  IF r.ok THEN Done(SetField(val, name, <<r.v>>), r.pos) ELSE Abort(val, r.pos)

\* value.name = v for a std::variant member, v of C++ type cpp_type
AssignVariant(val, name, cpp_type, r) ==
  IF r.ok THEN Done(SetField(val, name, [T |-> cpp_type, v |-> r.v]), r.pos)
  ELSE Abort(val, r.pos)

RECURSIVE ParseFrom(_, _, _, _, _)

\* the outcome parsed of a nested Serializer<T>::parse as a read that ends
\* at pos
ParsedMessage(parsed, pos) ==
  IF parsed.ret THEN [ok |-> TRUE, v |-> parsed.value, pos |-> pos] ELSE Failed(pos)

\* msg_buffer parsed into target
ParseBuffer(type_name, syn, msg_buffer, target) ==
  IF msg_buffer.ok
  THEN ParsedMessage(ParseFrom(ResolveMessage(type_name), syn, msg_buffer.v, 0, target),
                     msg_buffer.pos)
  ELSE Failed(msg_buffer.pos)

\* ReadMessage that hands the enclosing stream to the nested parse after the
\* length, without the buffer that bounds it
ReadMessage_unbounded(type_name, syn, s, pos, target) ==
  IF read_varint(s, pos).ok
  THEN ParsedMessage(ParseFrom(ResolveMessage(type_name), syn, s, read_varint(s, pos).pos, target),
                     ParseFrom(ResolveMessage(type_name), syn, s, read_varint(s, pos).pos, target).pos)
  ELSE Failed(pos)

\* the emitted "read length, read that many bytes into msg_buffer, parse
\* msg_buffer into target": v is the parsed message
ReadMessage(type_name, syn, s, pos, target) ==
  ParseBuffer(type_name, syn, read_length_delimited(s, pos), target)

\* SerializationCodegen._generate_unpacked_read_code: one element appended
_generate_unpacked_read_code(field, syn, s, pos, val) ==
  PushBack(val, field.name,
           IF field.type \in {"TYPE_MESSAGE", "TYPE_GROUP"}
           THEN ReadMessage(field.type_name, syn, s, pos,
                            DefaultMessage(ResolveMessage(field.type_name), syn))
           ELSE ReadScalar(field.type, s, pos))

\* SerializationCodegen._generate_packed_read_code inside the emitted
\* while (reader.position() < end_pos)
RECURSIVE PackedLoop(_, _, _, _, _)
PackedNext(field, s, end_pos, r) ==
  IF r.ok THEN PackedLoop(field, s, r.pos, end_pos, r.value) ELSE r

PackedLoop(field, s, pos, end_pos, val) ==
  IF pos < end_pos
  THEN PackedNext(field, s, end_pos, PushBack(val, field.name, ReadScalar(field.type, s, pos)))
  ELSE Done(val, pos)

\* the packed branch: the length that was read, then the loop up to end_pos
PackedBlock(field, s, length, val) ==
  IF length.ok THEN PackedLoop(field, s, length.pos, length.pos + length.v, val)
  ELSE Abort(val, length.pos)

\* SerializationCodegen._generate_simple_read_to_optional
_generate_simple_read_to_optional(field, s, pos, val) ==
  AssignOptional(val, field.name, ReadScalar(field.type, s, pos))

\* SerializationCodegen.generate_field_read: the case of a regular field
generate_field_read(field, syn, wire_type, s, pos, val) ==
  IF field.label = "LABEL_REPEATED"
  THEN IF is_field_packed(field, syn)
       THEN IF wire_type = WIRE_TYPE_LENGTH_DELIMITED
            THEN PackedBlock(field, s, read_varint(s, pos), val)
            ELSE _generate_unpacked_read_code(field, syn, s, pos, val)
       ELSE _generate_unpacked_read_code(field, syn, s, pos, val)
  ELSE IF uses_optional(field, syn)
  THEN IF field.type \in {"TYPE_MESSAGE", "TYPE_GROUP"}
       THEN AssignOptional(val, field.name,
                           ReadMessage(field.type_name, syn, s, pos,
                                       DefaultMessage(ResolveMessage(field.type_name), syn)))
       ELSE _generate_simple_read_to_optional(field, s, pos, val)
  ELSE Assign(val, field.name,
              IF field.type \in {"TYPE_MESSAGE", "TYPE_GROUP"}
              THEN ReadMessage(field.type_name, syn, s, pos, val.fields[field.name])
              ELSE ReadScalar(field.type, s, pos))

\* the default-initialised entry_key{} / entry_val{}
EntryDefault(field, syn) ==
  IF field.type = "TYPE_MESSAGE" THEN DefaultMessage(ResolveMessage(field.type_name), syn)
  ELSE IF field.type \in {"TYPE_STRING", "TYPE_BYTES"} THEN <<>>
  ELSE 0

\* the emitted while (reader.position() < entry_end) of generate_map_read;
\* entry is <<entry_key, entry_val>>, t the tag read inside the entry, r the
\* read of the sub-field: of the key (slot 1), of the value (slot 2), or the
\* skip of another field (slot 0)
RECURSIVE EntryLoop(_, _, _, _, _, _)
EntryNext(map_field, syn, s, entry_end, entry, slot, r) ==
  IF r.ok
  THEN EntryLoop(map_field, syn, s, r.pos, entry_end,
                 CASE slot = 1 -> <<r.v, entry[2]>>
                   [] slot = 2 -> <<entry[1], r.v>>
                   [] OTHER -> entry)
  ELSE Abort(entry, r.pos)

EntryCase(map_field, syn, s, entry_end, entry, t) ==
  IF ~t.ok THEN Abort(entry, t.pos)
  ELSE IF t.v[1] = 1
  THEN EntryNext(map_field, syn, s, entry_end, entry, 1,
                 ReadScalar(map_field.key_field.type, s, t.pos))
  ELSE IF t.v[1] = 2
  THEN EntryNext(map_field, syn, s, entry_end, entry, 2,
                 IF map_field.value_field.type = "TYPE_MESSAGE"
                 THEN ReadMessage(map_field.value_field.type_name, syn, s, t.pos, entry[2])
                 ELSE ReadScalar(map_field.value_field.type, s, t.pos))
  ELSE EntryNext(map_field, syn, s, entry_end, entry, 0, skip_field(t.v[2], s, t.pos))

EntryLoop(map_field, syn, s, pos, entry_end, entry) ==
  IF pos < entry_end
  THEN EntryCase(map_field, syn, s, entry_end, entry, read_tag(s, pos))
  ELSE Done(entry, pos)

\* an insert that leaves the value of a key the map already holds
MapPut_insert(entries, key, v) ==
  IF \E e \in entries : e[1] = key THEN entries ELSE entries \cup {<<key, v>>}

\* value.map[entry_key] = entry_val
MapPut(entries, key, v) == {e \in entries : e[1] # key} \cup {<<key, v>>}

\* the entry r that was read, stored
MapStore(map_field, val, r) ==
  IF r.ok
  THEN Done(SetField(val, map_field.name,
                     MapPut(val.fields[map_field.name], r.value[1], r.value[2])), r.pos)
  ELSE Abort(val, r.pos)

\* the entry after its length entry_length
MapEntry(map_field, syn, s, entry_length, val) ==
  IF entry_length.ok
  THEN MapStore(map_field, val,
                EntryLoop(map_field, syn, s, entry_length.pos,
                          entry_length.pos + entry_length.v,
                          <<EntryDefault(map_field.key_field, syn),
                            EntryDefault(map_field.value_field, syn)>>))
  ELSE Abort(val, entry_length.pos)

\* SerializationCodegen.generate_map_read: the case of a map field
generate_map_read(map_field, syn, s, pos, val) ==
  MapEntry(map_field, syn, s, read_varint(s, pos), val)

\* the outcome parsed of Serializer<T>::parse on the reader's own stream
ParsedMember(parsed) ==
  [ok |-> parsed.ret, v |-> parsed.value, pos |-> parsed.pos]

\* SerializationCodegen.generate_oneof_field_read: the case of a oneof member
generate_oneof_field_read(field, oneof, syn, s, pos, val) ==
  AssignVariant(val, oneof.name, _get_oneof_field_cpp_type(field),
                IF field.type \in {"TYPE_MESSAGE", "TYPE_GROUP"}
                THEN ParsedMember(ParseFrom(ResolveMessage(field.type_name), syn, s, pos,
                                            DefaultMessage(ResolveMessage(field.type_name), syn)))
                ELSE ReadScalar(field.type, s, pos))

\* the bound of the emitted loop: i < 10
UnknownVarintLimit == 10

\* the emitted for loop that decodes a captured varint: v is varint_value, n
\* the number of bytes combined into it
RECURSIVE UnknownVarintLoop(_, _, _)
UnknownVarintStep(unknown_data, i, acc) ==
  IF unknown_data[i + 1] < 128 THEN [v |-> acc, n |-> i + 1]
  ELSE UnknownVarintLoop(unknown_data, i + 1, acc)

UnknownVarintLoop(unknown_data, i, acc) ==
  IF i < Len(unknown_data) /\ i < UnknownVarintLimit
  THEN UnknownVarintStep(unknown_data, i,
                         IF unknown_data[i + 1] % 128 = 0 THEN acc
                         ELSE acc + (unknown_data[i + 1] % 128) * Pow128(i))
  ELSE [v |-> acc, n |-> i]

AddUnknown(val, u) == [val EXCEPT !.unknown_fields = Append(@, u)]

\* the position behind the length prefix of the captured bytes
PrefixEnd(prefix) == prefix.pos

\* the switch (wire_type) of the default case on the captured unknown_data
StoreUnknown(field_number, wire_type, unknown_data, val) ==
  CASE wire_type = WIRE_TYPE_VARINT ->
         AddUnknown(val, UnknownField(field_number, wire_type,
                                      <<UnknownVarintLoop(unknown_data, 0, 0).v>>))
    [] wire_type = WIRE_TYPE_FIXED32 ->
         IF Len(unknown_data) >= 4
         THEN AddUnknown(val, UnknownField(field_number, wire_type,
                                           <<FromLittleEndian(SubSeq(unknown_data, 1, 4))>>))
         ELSE val
    [] wire_type = WIRE_TYPE_FIXED64 ->
         IF Len(unknown_data) >= 8
         THEN AddUnknown(val, UnknownField(field_number, wire_type,
                                           <<FromLittleEndian(SubSeq(unknown_data, 1, 8))>>))
         ELSE val
    [] wire_type = WIRE_TYPE_LENGTH_DELIMITED ->
         IF PrefixEnd(read_varint(unknown_data, 0)) < Len(unknown_data)
         THEN AddUnknown(val, UnknownField(field_number, wire_type,
                           SubSeq(unknown_data, PrefixEnd(read_varint(unknown_data, 0)) + 1,
                                  Len(unknown_data))))
         ELSE val
    [] wire_type = WIRE_TYPE_START_GROUP ->
         AddUnknown(val, UnknownField(field_number, wire_type, unknown_data))
    [] OTHER -> val

\* the default case after capture_unknown_field
Captured(field_number, wire_type, captured, val) ==
  IF captured.ok
  THEN Done(StoreUnknown(field_number, wire_type, captured.v, val), captured.pos)
  ELSE Abort(val, captured.pos)

\* SerializationCodegen._generate_single_serializer: the default case of the
\* switch in parse
DefaultCase(field_number, wire_type, s, pos, val) ==
  Captured(field_number, wire_type, capture_unknown_field(wire_type, s, pos), val)

\* the field of a list with the given number, <<>> without one
FieldNumbered(fields, number) ==
  SelectSeq(fields, LAMBDA f : f.number = number)

OneofMembers(oneofs) ==
  Flatten([i \in 1..Len(oneofs) |->
             [j \in 1..Len(oneofs[i].fields) |->
                [field |-> oneofs[i].fields[j], oneof |-> oneofs[i]]]])

\* the case labels of the switch: regular fields, maps and oneof members
\* that carry the number
Cases(regular, maps, members, syn, wire_type, s, pos, val, field_number) ==
  IF regular # <<>> THEN generate_field_read(regular[1], syn, wire_type, s, pos, val)
  ELSE IF maps # <<>> THEN generate_map_read(maps[1], syn, s, pos, val)
  ELSE IF members # <<>>
  THEN generate_oneof_field_read(members[1].field, members[1].oneof, syn, s, pos, val)
  ELSE DefaultCase(field_number, wire_type, s, pos, val)

\* the switch (field_number) of the emitted parse: the cases of the regular
\* fields, of the maps, of the oneof members, then default
SwitchCase(msg, syn, field_number, wire_type, s, pos, val) ==
  Cases(FieldNumbered(get_non_oneof_fields(msg), field_number),
        FieldNumbered(extract_maps_from_message(msg), field_number),
        SelectSeq(OneofMembers(extract_oneofs_from_message(msg)),
                  LAMBDA m : m.field.number = field_number),
        syn, wire_type, s, pos, val, field_number)

\* a loop that ends with true where a case has returned false
LoopBody_besteffort(msg, syn, s, r) ==
  IF r.ok THEN ParseFrom(msg, syn, s, r.pos, r.value)
  ELSE [ret |-> TRUE, value |-> r.value, pos |-> r.pos]

\* the body of the loop has run with outcome r
LoopBody(msg, syn, s, r) ==
  IF r.ok THEN ParseFrom(msg, syn, s, r.pos, r.value)
  ELSE [ret |-> FALSE, value |-> r.value, pos |-> r.pos]

\* the loop condition reader.read_tag(field_number, wire_type) has outcome t
LoopTag(msg, syn, s, t, val) ==
  IF t.ok THEN LoopBody(msg, syn, s, SwitchCase(msg, syn, t.v[1], t.v[2], s, t.pos, val))
  ELSE [ret |-> TRUE, value |-> val, pos |-> t.pos]

\* SerializationCodegen._generate_single_serializer: Serializer<M>::parse,
\* while (reader.read_tag(field_number, wire_type)) { switch ... } return true
ParseFrom(msg, syn, s, pos, val) == LoopTag(msg, syn, s, read_tag(s, pos), val)

(***************************************************************************)
(* The serializer of one message at work: an instance is constructed,      *)
(* parse fills it from a stream, serialize writes it back.                 *)
(***************************************************************************)
Parse ==
  /\ cpc = "parse"
  /\ LET r == ParseFrom(message, syntax, stream, 0, value)
     IN /\ value' = r.value
        /\ parse_ret' = IF r.ret THEN "true" ELSE "false"
  /\ cpc' = "serialize"
  /\ UNCHANGED <<syntax, message, wire, stream, map_order, out>>

Perms(S) ==
  {p \in [1..Cardinality(S) -> S] : \A i, j \in 1..Cardinality(S) : p[i] = p[j] => i = j}

\* the orders in which the maps of an instance can be iterated
MapOrders(msg, val) ==
  LET maps == extract_maps_from_message(msg)
      names == {maps[i].name : i \in 1..Len(maps)}
  IN {o \in [names -> UNION {Perms(MapKeys(val.fields[n])) : n \in names}] :
        \A n \in names : o[n] \in Perms(MapKeys(val.fields[n]))}

Serialize ==
  /\ cpc = "serialize"
  /\ parse_ret = "true"
  /\ \E order \in MapOrders(message, value) :
       /\ map_order' = order
       /\ out' = SerializeMessage(message, syntax, value, order)
  /\ cpc' = "end"
  /\ UNCHANGED <<syntax, message, wire, stream, value, parse_ret>>

\* no file is being ordered while a serializer is at work
OrderIdle ==
  /\ messages = <<>>
  /\ dependencies = <<>>
  /\ in_degree = <<>>
  /\ queue = <<>>
  /\ sorted_names = <<>>
  /\ result = <<>>
  /\ pc = "idle"

CodecNext == (Parse \/ Serialize) /\ UNCHANGED <<ordVars, varintVars, serVars>>

(***************************************************************************)
(* Input of parse.  A stream is the encoding of a sequence of field        *)
(* occurrences as a protobuf writer produces them, possibly cut short.  An *)
(* occurrence is [number, wire_type, data, elems]: data is <<value>> for a *)
(* varint or fixed-width payload and the payload bytes otherwise; elems    *)
(* are the typed values the occurrence carries for a field of the schema.  *)
(***************************************************************************)
Item(number, wire_type, data, elems) ==
  [number |-> number, wire_type |-> wire_type, data |-> data, elems |-> elems]

\* the bytes of a payload on the wire
PayloadBytes(wire_type, data) ==
  CASE wire_type = WIRE_TYPE_VARINT -> write_varint(data[1])
    [] wire_type = WIRE_TYPE_FIXED32 -> write_fixed(4, data[1])
    [] wire_type = WIRE_TYPE_FIXED64 -> write_fixed(8, data[1])
    [] wire_type = WIRE_TYPE_LENGTH_DELIMITED -> write_varint(Len(data)) \o data
    [] wire_type = WIRE_TYPE_START_GROUP -> data

ItemBytes(item) ==
  write_tag(item.number, item.wire_type) \o PayloadBytes(item.wire_type, item.data)

WireBytes(items) == Flatten([i \in 1..Len(items) |-> ItemBytes(items[i])])

\* the protobuf encoding of the scalar types
EncodingOf(type) ==
  CASE type \in {"TYPE_SINT32", "TYPE_SINT64"} -> "zigzag"
    [] type \in {"TYPE_FIXED32", "TYPE_SFIXED32", "TYPE_FLOAT"} -> "fixed32"
    [] type \in {"TYPE_FIXED64", "TYPE_SFIXED64", "TYPE_DOUBLE"} -> "fixed64"
    [] type \in {"TYPE_STRING", "TYPE_BYTES", "TYPE_MESSAGE"} -> "bytes"
    [] OTHER -> "varint"

WireTypeOf(type) ==
  CASE EncodingOf(type) \in {"varint", "zigzag"} -> WIRE_TYPE_VARINT
    [] EncodingOf(type) = "fixed32" -> WIRE_TYPE_FIXED32
    [] EncodingOf(type) = "fixed64" -> WIRE_TYPE_FIXED64
    [] OTHER -> WIRE_TYPE_LENGTH_DELIMITED

DataOf(type, v) ==
  CASE EncodingOf(type) = "zigzag" -> <<ZigZag(v)>>
    [] EncodingOf(type) = "bytes" -> v
    [] OTHER -> <<v>>

\* one occurrence of a field of the given type holding v
ScalarItem(number, type, v) == Item(number, WireTypeOf(type), DataOf(type, v), <<v>>)

\* the elements xs of a repeated field in one packed block
PackedItem(number, type, xs) ==
  Item(number, WIRE_TYPE_LENGTH_DELIMITED,
       Flatten([i \in 1..Len(xs) |-> PayloadBytes(WireTypeOf(type), DataOf(type, xs[i]))]),
       xs)

\* a group: the bytes between the START_GROUP tag and the END_GROUP tag, and
\* the END_GROUP tag
GroupItem(number, inner) ==
  Item(number, WIRE_TYPE_START_GROUP, inner \o write_tag(number, WIRE_TYPE_END_GROUP), <<>>)

\* the values a field of a type is sent with
SampleValues(type) ==
  CASE type = "TYPE_BOOL" -> {0, 1}
    [] type \in {"TYPE_STRING", "TYPE_BYTES"} -> {<<>>, <<97>>}
    [] type = "TYPE_MESSAGE" -> {<<>>, <<8, 1>>}
    [] type \in {"TYPE_SINT32", "TYPE_SINT64"} -> {0, -1, 150}
    [] OTHER -> {0, 1, 150}

\* the sequences over S of length up to n
SeqsUpTo(S, n) == UNION {[1..k -> S] : k \in 0..n}

\* all the elements the occurrences carry, in order
Elements(items) == Flatten([i \in 1..Len(items) |-> items[i].elems])

\* a serializer constructed for a message of a schema, and a stream to parse
CodecInitOf(Schemas, Inputs(_), maxcut) ==
  /\ OrderIdle
  /\ VarintIdle
  /\ SerIdle
  /\ \E sch \in Schemas :
       \E items \in Inputs(sch) :
         \E cut \in 0..maxcut :
           /\ cut <= Len(WireBytes(items))
           /\ syntax = sch.syn
           /\ message = sch.msg
           /\ wire = items
           /\ stream = SubSeq(WireBytes(items), 1, Len(WireBytes(items)) - cut)
           /\ value = DefaultMessage(sch.msg, sch.syn)
  /\ parse_ret = "none"
  /\ map_order = <<>>
  /\ out = <<>>
  /\ cpc = "parse"

Schema(syn, msg) == [syn |-> syn, msg |-> msg]

Syntaxes == {"proto2", "proto3"}

EnumRef == <<"", Package, "Color">>

TypeNameOf(type) ==
  CASE type = "TYPE_ENUM" -> EnumRef
    [] type = "TYPE_MESSAGE" -> TopRef(Inner.name)
    [] OTHER -> <<>>

\* the types of a length-delimited payload that is not a packed block
UnpackableTypes == {"TYPE_STRING", "TYPE_BYTES", "TYPE_MESSAGE"}

NumericTypes == (ScalarTypes \ {"TYPE_STRING", "TYPE_BYTES"}) \cup {"TYPE_ENUM"}

\* the stream was cut short
Truncated == stream # WireBytes(wire)

(***************************************************************************)
(* Repeated fields of packable type: message M { repeated T r = 1; } with  *)
(* each packing option under each syntax; the elements arrive in one       *)
(* packed block or one by one.                                             *)
(***************************************************************************)
RepeatedMsg(type, packed) ==
  Message("M",
          <<Field("r", 1, type, "LABEL_REPEATED", TypeNameOf(type), NoOneof, FALSE, packed)>>,
          <<>>, <<>>, FALSE)

RepeatedSchemas ==
  {Schema(syn, RepeatedMsg(type, packed)) :
     syn \in Syntaxes, type \in NumericTypes, packed \in {"unset", "true", "false"}}

PackedForm(number, type, xs) ==
  IF xs = <<>> THEN <<>> ELSE <<PackedItem(number, type, xs)>>

UnpackedForm(number, type, xs) ==
  [i \in 1..Len(xs) |-> ScalarItem(number, type, xs[i])]

RepeatedInputs(sch) ==
  LET field == sch.msg.field[1]
  IN UNION {{PackedForm(field.number, field.type, xs), UnpackedForm(field.number, field.type, xs)} :
              xs \in SeqsUpTo(SampleValues(field.type), MaxElems)}

RepeatedInit == CodecInitOf(RepeatedSchemas, RepeatedInputs, 0)

SpecRepeated == RepeatedInit /\ [][CodecNext]_vars

(***************************************************************************)
(* Singular fields: message M { T s = 1; } as proto3 implicit, proto3      *)
(* optional, proto2 optional and proto2 required.                          *)
(***************************************************************************)
SingularMsg(type, label, proto3_optional) ==
  Message("M",
          <<Field("s", 1, type, label, TypeNameOf(type),
                  IF proto3_optional THEN 0 ELSE NoOneof, proto3_optional, "unset")>>,
          <<>>, IF proto3_optional THEN <<"_s">> ELSE <<>>, FALSE)

SingularSchemas ==
  {Schema("proto3", SingularMsg(type, "LABEL_OPTIONAL", p3)) :
     type \in ScalarTypes \cup {"TYPE_ENUM"}, p3 \in BOOLEAN}
  \cup
  {Schema("proto2", SingularMsg(type, label, FALSE)) :
     type \in ScalarTypes \cup {"TYPE_ENUM"}, label \in {"LABEL_OPTIONAL", "LABEL_REQUIRED"}}

SingularInputs(sch) ==
  LET field == sch.msg.field[1]
  IN SeqsUpTo({ScalarItem(field.number, field.type, v) : v \in SampleValues(field.type)}, MaxItems)

SingularInit == CodecInitOf(SingularSchemas, SingularInputs, 0)

SpecSingular == SingularInit /\ [][CodecNext]_vars

(***************************************************************************)
(* Oneofs: message M { oneof choice { T1 a = 1; T2 b = 2; } }, the members  *)
(* of numeric, string, bytes and message type.                              *)
(***************************************************************************)
OneofMsg(type1, type2) ==
  Message("M",
          <<Field("a", 1, type1, "LABEL_OPTIONAL", TypeNameOf(type1), 0, FALSE, "unset"),
            Field("b", 2, type2, "LABEL_OPTIONAL", TypeNameOf(type2), 0, FALSE, "unset")>>,
          <<>>, <<"choice">>, FALSE)

OneofNumericTypes ==
  {"TYPE_INT32", "TYPE_SINT32", "TYPE_SFIXED32", "TYPE_UINT32", "TYPE_INT64", "TYPE_BOOL",
   "TYPE_FLOAT", "TYPE_ENUM"}

OneofSchemas ==
  {Schema(syn, OneofMsg(t1, t2)) : syn \in Syntaxes, t1 \in OneofNumericTypes, t2 \in OneofNumericTypes}
  \cup
  {Schema(syn, OneofMsg(t1, t2)) : syn \in Syntaxes, t1 \in UnpackableTypes, t2 \in UnpackableTypes}

OneofInputs(sch) ==
  SeqsUpTo(UNION {{ScalarItem(sch.msg.field[i].number, sch.msg.field[i].type, v) :
                     v \in SampleValues(sch.msg.field[i].type)} : i \in 1..Len(sch.msg.field)},
           MaxItems)

OneofInit == CodecInitOf(OneofSchemas, OneofInputs, 0)

SpecOneof == OneofInit /\ [][CodecNext]_vars

(***************************************************************************)
(* Maps: message M { map<K, V> m = 1; } for every legal key type and every *)
(* value type.                                                             *)
(***************************************************************************)
MapKeyTypes ==
  (ScalarTypes \ {"TYPE_DOUBLE", "TYPE_FLOAT", "TYPE_BYTES"})

MapValueTypes == ScalarTypes \cup {"TYPE_ENUM", "TYPE_MESSAGE"}

MapMsg(key_type, value_type) ==
  Message("M",
          <<Field("m", 1, "TYPE_MESSAGE", "LABEL_REPEATED", <<"", Package, "M", "MEntry">>,
                  NoOneof, FALSE, "unset")>>,
          <<Message("MEntry",
                    <<Field("key", 1, key_type, "LABEL_OPTIONAL", <<>>, NoOneof, FALSE, "unset"),
                      Field("value", 2, value_type, "LABEL_OPTIONAL", TypeNameOf(value_type),
                            NoOneof, FALSE, "unset")>>,
                    <<>>, <<>>, TRUE)>>,
          <<>>, FALSE)

MapSchemas ==
  {Schema(syn, MapMsg(kt, vt)) : syn \in Syntaxes, kt \in MapKeyTypes, vt \in MapValueTypes}

\* one entry of the map: the key as field 1, the value as field 2; elems is
\* <<key, value>>
EntryItem(number, key_type, key, value_type, v) ==
  Item(number, WIRE_TYPE_LENGTH_DELIMITED,
       ItemBytes(ScalarItem(1, key_type, key)) \o ItemBytes(ScalarItem(2, value_type, v)),
       <<key, v>>)

\* the keys and the values the entries are sent with
MapSamples(type) ==
  CASE type \in {"TYPE_BOOL", "TYPE_STRING", "TYPE_BYTES", "TYPE_MESSAGE"} -> SampleValues(type)
    [] type \in {"TYPE_SINT32", "TYPE_SINT64"} -> {-1, 150}
    [] OTHER -> {0, 150}

MapInputs(sch) ==
  LET entry == sch.msg.nested_type[1]
      kt == entry.field[1].type
      vt == entry.field[2].type
  IN SeqsUpTo({EntryItem(sch.msg.field[1].number, kt, k, vt, v) :
                 k \in MapSamples(kt), v \in MapSamples(vt)}, MaxItems)

MapInit == CodecInitOf(MapSchemas, MapInputs, 0)

SpecMap == MapInit /\ [][CodecNext]_vars

(***************************************************************************)
(* Fields the schema does not know: message M { int32 k = 1; } parsing     *)
(* occurrences of field 1, of the unknown fields 3 and 16 in every wire    *)
(* type, and streams cut short.                                            *)
(***************************************************************************)
UnknownMsg ==
  Message("M",
          <<Field("k", 1, "TYPE_INT32", "LABEL_OPTIONAL", <<>>, NoOneof, FALSE, "unset")>>,
          <<>>, <<>>, FALSE)

UnknownSchemas == {Schema(syn, UnknownMsg) : syn \in Syntaxes}

UnknownPool ==
  { ScalarItem(1, "TYPE_INT32", 1),
    Item(3, WIRE_TYPE_VARINT, <<0>>, <<>>),
    Item(3, WIRE_TYPE_VARINT, <<150>>, <<>>),
    Item(16, WIRE_TYPE_VARINT, <<1>>, <<>>),
    Item(3, WIRE_TYPE_FIXED32, <<258>>, <<>>),
    Item(3, WIRE_TYPE_FIXED64, <<1>>, <<>>),
    Item(3, WIRE_TYPE_LENGTH_DELIMITED, <<>>, <<>>),
    Item(3, WIRE_TYPE_LENGTH_DELIMITED, <<97, 98>>, <<>>),
    Item(16, WIRE_TYPE_LENGTH_DELIMITED, <<97>>, <<>>),
    GroupItem(3, <<>>),
    GroupItem(3, ItemBytes(Item(1, WIRE_TYPE_VARINT, <<1>>, <<>>))) }

UnknownInputs(sch) == SeqsUpTo(UnknownPool, MaxItems)

UnknownInit == CodecInitOf(UnknownSchemas, UnknownInputs, MaxCut)

SpecUnknown == UnknownInit /\ [][CodecNext]_vars

(***************************************************************************)
(* Fields of every shape: message M { <label> T f = 1 [packed = ...]; }    *)
(* for every type, message types included, singular, optional, required    *)
(* and repeated, under both syntaxes; the packed option only where protoc  *)
(* accepts it, on repeated fields of packable type.                        *)
(***************************************************************************)
FieldSchemas ==
  RepeatedSchemas \cup SingularSchemas
  \cup {Schema(syn, RepeatedMsg(type, "unset")) : syn \in Syntaxes, type \in UnpackableTypes}
  \cup {Schema("proto3", SingularMsg("TYPE_MESSAGE", "LABEL_OPTIONAL", p3)) : p3 \in BOOLEAN}
  \cup {Schema("proto2", SingularMsg("TYPE_MESSAGE", label, FALSE)) :
          label \in {"LABEL_OPTIONAL", "LABEL_REQUIRED"}}

\* occurrences of the field, one element each
FieldInputs(sch) == SingularInputs(sch)

FieldInit == CodecInitOf(FieldSchemas, FieldInputs, 0)

SpecField == FieldInit /\ [][CodecNext]_vars

(***************************************************************************)
(* Messages of mixed shape: some of                                        *)
(*   optional int32 a = 1;  oneof choice { int32 b = 2; bool c = 3; }      *)
(*   int32 d = 4;  map<int32, int32> m = 5;                                *)
(* declared in any order.  Under proto3 protoc gives the optional field a  *)
(* synthetic oneof "_a", declared after the real oneofs; under proto2 the  *)
(* field is a plain optional one.  Field 9 is in no schema.                *)
(***************************************************************************)
MixedUnits == {"a", "choice", "d", "m"}

MixedOrders ==
  {o \in UNION {[1..k -> MixedUnits] : k \in 2..Cardinality(MixedUnits)} :
     \A i, j \in 1..Len(o) : o[i] = o[j] => i = j}

MixedEntry ==
  Message("MEntry",
          <<Field("key", 1, "TYPE_INT32", "LABEL_OPTIONAL", <<>>, NoOneof, FALSE, "unset"),
            Field("value", 2, "TYPE_INT32", "LABEL_OPTIONAL", <<>>, NoOneof, FALSE, "unset")>>,
          <<>>, <<>>, TRUE)

\* the fields a unit declares; synthetic is the index of the synthetic oneof
UnitFields(unit, syn, synthetic) ==
  CASE unit = "a" ->
         <<Field("a", 1, "TYPE_INT32", "LABEL_OPTIONAL", <<>>,
                 IF syn = "proto3" THEN synthetic ELSE NoOneof, syn = "proto3", "unset")>>
    [] unit = "choice" ->
         <<Field("b", 2, "TYPE_INT32", "LABEL_OPTIONAL", <<>>, 0, FALSE, "unset"),
           Field("c", 3, "TYPE_BOOL", "LABEL_OPTIONAL", <<>>, 0, FALSE, "unset")>>
    [] unit = "d" ->
         <<Field("d", 4, "TYPE_INT32", "LABEL_OPTIONAL", <<>>, NoOneof, FALSE, "unset")>>
    [] unit = "m" ->
         <<Field("m", 5, "TYPE_MESSAGE", "LABEL_REPEATED", <<"", Package, "M", "MEntry">>,
                 NoOneof, FALSE, "unset")>>

MixedMsg(order, syn) ==
  Message("M",
          Flatten([i \in 1..Len(order) |->
                     UnitFields(order[i], syn, IF "choice" \in Range(order) THEN 1 ELSE 0)]),
          IF "m" \in Range(order) THEN <<MixedEntry>> ELSE <<>>,
          (IF "choice" \in Range(order) THEN <<"choice">> ELSE <<>>)
            \o (IF "a" \in Range(order) /\ syn = "proto3" THEN <<"_a">> ELSE <<>>),
          FALSE)

MixedSchemas == {Schema(syn, MixedMsg(order, syn)) : syn \in Syntaxes, order \in MixedOrders}

MixedPool ==
  { ScalarItem(1, "TYPE_INT32", 0),
    ScalarItem(2, "TYPE_INT32", 1),
    ScalarItem(3, "TYPE_BOOL", 1),
    ScalarItem(4, "TYPE_INT32", 1),
    EntryItem(5, "TYPE_INT32", 1, "TYPE_INT32", 1),
    Item(9, WIRE_TYPE_VARINT, <<1>>, <<>>) }

MixedInputs(sch) == SeqsUpTo(MixedPool, MaxItems)

MixedInit == CodecInitOf(MixedSchemas, MixedInputs, 0)

SpecMixed == MixedInit /\ [][CodecNext]_vars

(***************************************************************************)
(* Messages of mixed shape with one more message-typed field x = 6, a      *)
(* plain field or a member of the oneof choice, of type Inner or of type   *)
(* Other.MEntry: a user-defined message that bears the name of the entry   *)
(* type protoc synthesizes for the map field m.                            *)
(***************************************************************************)
ClassifyOrders == {o \in MixedOrders : Len(o) = 2}

\* the field list with field x put behind the field named after
RECURSIVE InsertBehind(_, _, _)
InsertBehind(fields, after, x) ==
  IF fields = <<>> THEN <<>>
  ELSE <<Head(fields)>> \o (IF Head(fields).name = after THEN <<x>> ELSE <<>>)
       \o InsertBehind(Tail(fields), after, x)

ClassifyMsg(order, syn, place, type_name) ==
  Message("M",
          IF place = "field"
          THEN Append(MixedMsg(order, syn).field,
                      Field("x", 6, "TYPE_MESSAGE", "LABEL_OPTIONAL", type_name, NoOneof,
                            FALSE, "unset"))
          ELSE InsertBehind(MixedMsg(order, syn).field, "c",
                            Field("x", 6, "TYPE_MESSAGE", "LABEL_OPTIONAL", type_name, 0,
                                  FALSE, "unset")),
          MixedMsg(order, syn).nested_type,
          MixedMsg(order, syn).oneof_decl,
          FALSE)

ClassifySchemas ==
  MixedSchemas
  \cup {Schema(syn, ClassifyMsg(order, syn, place, type_name)) :
          syn \in Syntaxes, order \in ClassifyOrders, place \in {"field", "member"},
          type_name \in {TopRef("Inner"), <<"", Package, "Other", "MEntry">>}}

ClassifyPool == MixedPool \cup {Item(6, WIRE_TYPE_LENGTH_DELIMITED, <<8, 1>>, <<<<8, 1>>>>)}

ClassifyInputs(sch) == SeqsUpTo(ClassifyPool, MaxItems)

ClassifyInit == CodecInitOf(ClassifySchemas, ClassifyInputs, 0)

SpecClassify == ClassifyInit /\ [][CodecNext]_vars

(***************************************************************************)
(* Embedded messages: a field of type Inner as proto3 singular, as         *)
(* optional or required, as repeated element and as value of a map, its    *)
(* occurrences mixed with occurrences of the unknown field 9, the stream   *)
(* possibly cut short.                                                     *)
(***************************************************************************)
NestedSchemas ==
  {Schema("proto3", SingularMsg("TYPE_MESSAGE", "LABEL_OPTIONAL", p3)) : p3 \in BOOLEAN}
  \cup {Schema("proto2", SingularMsg("TYPE_MESSAGE", label, FALSE)) :
          label \in {"LABEL_OPTIONAL", "LABEL_REQUIRED"}}
  \cup {Schema(syn, RepeatedMsg("TYPE_MESSAGE", "unset")) : syn \in Syntaxes}
  \cup {Schema(syn, MapMsg("TYPE_INT32", "TYPE_MESSAGE")) : syn \in Syntaxes}

NestedPool(sch) ==
  (IF sch.msg.nested_type # <<>>
   THEN {EntryItem(1, "TYPE_INT32", k, "TYPE_MESSAGE", v) :
           k \in MapSamples("TYPE_INT32"), v \in SampleValues("TYPE_MESSAGE")}
   ELSE {ScalarItem(1, "TYPE_MESSAGE", v) : v \in SampleValues("TYPE_MESSAGE")})
  \cup {Item(9, WIRE_TYPE_VARINT, <<1>>, <<>>)}

NestedInputs(sch) == SeqsUpTo(NestedPool(sch), MaxItems)

NestedInit == CodecInitOf(NestedSchemas, NestedInputs, MaxCut)

SpecNested == NestedInit /\ [][CodecNext]_vars

(***************************************************************************)
(* Group starts on fields that are no groups: message M { T s = 1; } and   *)
(* message M { repeated T r = 1; }, the occurrences of field 1 mixed with  *)
(* groups that carry the number 1.                                         *)
(***************************************************************************)
GroupFieldTypes ==
  {"TYPE_INT32", "TYPE_UINT32", "TYPE_SINT32", "TYPE_BOOL", "TYPE_ENUM", "TYPE_STRING",
   "TYPE_BYTES", "TYPE_MESSAGE"}

GroupSchemas ==
  {Schema("proto3", SingularMsg(type, "LABEL_OPTIONAL", p3)) :
     type \in GroupFieldTypes, p3 \in BOOLEAN}
  \cup {Schema("proto2", SingularMsg(type, label, FALSE)) :
          type \in GroupFieldTypes, label \in {"LABEL_OPTIONAL", "LABEL_REQUIRED"}}
  \cup {Schema(syn, RepeatedMsg(type, "unset")) : syn \in Syntaxes, type \in GroupFieldTypes}

GroupInputs(sch) ==
  SeqsUpTo({ScalarItem(1, sch.msg.field[1].type, v) : v \in SampleValues(sch.msg.field[1].type)}
           \cup {GroupItem(1, <<>>),
                 GroupItem(1, ItemBytes(Item(2, WIRE_TYPE_VARINT, <<1>>, <<>>)))},
           MaxItems)

GroupInit == CodecInitOf(GroupSchemas, GroupInputs, 0)

SpecGroup == GroupInit /\ [][CodecNext]_vars

(***************************************************************************)
(* Scalars on every path: a field of each scalar type as proto3 implicit,  *)
(* as optional, as repeated unpacked and packed, as key and as value of a  *)
(* map, and as member of a oneof.                                          *)
(***************************************************************************)
ScalarSchemas ==
  {Schema("proto3", SingularMsg(type, "LABEL_OPTIONAL", p3)) : type \in ScalarTypes, p3 \in BOOLEAN}
  \cup {Schema("proto2", SingularMsg(type, "LABEL_OPTIONAL", FALSE)) : type \in ScalarTypes}
  \cup {Schema(syn, RepeatedMsg(type, packed)) :
          syn \in Syntaxes, type \in NumericTypes \cap ScalarTypes, packed \in {"true", "false"}}
  \cup {Schema(syn, RepeatedMsg(type, "unset")) :
          syn \in Syntaxes, type \in {"TYPE_STRING", "TYPE_BYTES"}}
  \cup {Schema(syn, MapMsg("TYPE_INT32", type)) : syn \in Syntaxes, type \in ScalarTypes}
  \cup {Schema(syn, MapMsg(type, "TYPE_INT32")) : syn \in Syntaxes, type \in MapKeyTypes}
  \cup {Schema(syn, OneofMsg(type, "TYPE_MESSAGE")) : syn \in Syntaxes, type \in ScalarTypes}

\* occurrences of field 1 alone; a packed block only where the read case of
\* packed blocks is emitted
ScalarInputs(sch) ==
  IF sch.msg.nested_type # <<>> THEN MapInputs(sch)
  ELSE IF sch.msg.field[1].label = "LABEL_REPEATED"
          /\ is_field_packed(sch.msg.field[1], sch.syn)
  THEN RepeatedInputs(sch)
  ELSE SingularInputs(sch)

ScalarInit == CodecInitOf(ScalarSchemas, ScalarInputs, 0)

SpecScalar == ScalarInit /\ [][CodecNext]_vars

(***************************************************************************)
(* Varint decoding on its own: ProtoParser._read_varint, one action per    *)
(* pass of its while loop, and the loop the generator emits for a captured *)
(* unknown varint, both over the same bytes: a run of continuation bytes,  *)
(* with or without a byte that ends it.                                    *)
(***************************************************************************)
MaxContinuation == 12

RECURSIVE Pow2(_)
Pow2(n) == IF n = 0 THEN 1 ELSE 2 * Pow2(n - 1)

\* result | ((byte & 0x7F) << shift), the bits of result all below shift
OrShifted(res, byte, shift) ==
  IF byte % 128 = 0 THEN res ELSE res + (byte % 128) * Pow2(shift)

\* while pos < len(data): one pass of the loop body
ReadVarintByte ==
  /\ vpc = "loop"
  /\ varint_pos < Len(varint_data)
  /\ varint_pos' = varint_pos + 1
  /\ varint_result' = OrShifted(varint_result, varint_data[varint_pos + 1], varint_shift)
  /\ IF varint_data[varint_pos + 1] < 128
     THEN vpc' = "return" /\ varint_shift' = varint_shift
     ELSE vpc' = "loop" /\ varint_shift' = varint_shift + 7
  /\ UNCHANGED <<varint_data, varint_ret, varint_value, varint_used>>

\* the loop condition fails: data is exhausted
ReadVarintExhausted ==
  /\ vpc = "loop"
  /\ varint_pos >= Len(varint_data)
  /\ vpc' = "return"
  /\ UNCHANGED <<varint_data, varint_pos, varint_shift, varint_result, varint_ret,
                 varint_value, varint_used>>

\* return result, pos
ReadVarintReturn ==
  /\ vpc = "return"
  /\ varint_ret' = <<varint_result, varint_pos>>
  /\ vpc' = "emitted"
  /\ UNCHANGED <<varint_data, varint_pos, varint_shift, varint_result, varint_value,
                 varint_used>>

\* the emitted loop over the same bytes as unknown_data
DecodeUnknownVarint ==
  /\ vpc = "emitted"
  /\ varint_value' = UnknownVarintLoop(varint_data, 0, 0).v
  /\ varint_used' = UnknownVarintLoop(varint_data, 0, 0).n
  /\ vpc' = "end"
  /\ UNCHANGED <<varint_data, varint_pos, varint_shift, varint_result, varint_ret>>

VarintNext ==
  (ReadVarintByte \/ ReadVarintExhausted \/ ReadVarintReturn \/ DecodeUnknownVarint)
  /\ UNCHANGED <<ordVars, codecVars, serVars>>

Continuation(k) == [i \in 1..k |-> 128]

VarintInputs ==
  {first \o Continuation(k) \o last :
     first \in {<<>>, <<129>>}, k \in 0..MaxContinuation, last \in {<<>>, <<0>>}}
  \cup {<<1>>, <<129, 1>>, <<128, 1>>}

VarintInit ==
  /\ OrderIdle
  /\ CodecIdle
  /\ SerIdle
  /\ varint_data \in VarintInputs
  /\ varint_pos = 0
  /\ varint_shift = 0
  /\ varint_result = 0
  /\ varint_ret = <<>>
  /\ varint_value = 0
  /\ varint_used = 0
  /\ vpc = "loop"

SpecVarint == VarintInit /\ [][VarintNext]_vars

(***************************************************************************)
(* Reads that fail: a field of each type on each path, well-formed         *)
(* occurrences, then possibly one occurrence whose payload cannot be read  *)
(* (a varint that no byte ends, a length or a width beyond the input, a    *)
(* submessage with such a payload, one or two levels down), then the       *)
(* unknown field 9.  wire is the occurrences ahead of the one that fails.  *)
(***************************************************************************)
DeepMsg(label) ==
  Message("M",
          <<Field(IF label = "LABEL_REPEATED" THEN "r" ELSE "s", 1, "TYPE_MESSAGE", label,
                  TopRef("Middle"), NoOneof, FALSE, "unset")>>,
          <<>>, <<>>, FALSE)

AbortSchemas ==
  ScalarSchemas
  \cup {Schema(syn, SingularMsg("TYPE_MESSAGE", "LABEL_OPTIONAL", FALSE)) : syn \in Syntaxes}
  \cup {Schema(syn, RepeatedMsg("TYPE_MESSAGE", "unset")) : syn \in Syntaxes}
  \cup {Schema(syn, MapMsg("TYPE_INT32", "TYPE_MESSAGE")) : syn \in Syntaxes}
  \cup {Schema(syn, DeepMsg(label)) :
          syn \in Syntaxes, label \in {"LABEL_OPTIONAL", "LABEL_REPEATED"}}

\* the bytes after the tag of a value of the type that cannot be read
BadPayload(type, type_name) ==
  CASE type = "TYPE_MESSAGE" ->
         IF LastComponent(type_name) = "Middle" THEN <<3, 10, 1, 8>> ELSE <<1, 8>>
    [] type \in {"TYPE_STRING", "TYPE_BYTES"} -> <<100>>
    [] get_wire_type(type) \in {WIRE_TYPE_FIXED32, WIRE_TYPE_FIXED64} -> <<1>>
    [] OTHER -> Continuation(MaxVarintBytes) \o <<0>>

\* a block of LENGTH_DELIMITED field 1 with the given bytes
Block(number, bytes) ==
  write_tag(number, WIRE_TYPE_LENGTH_DELIMITED) \o write_varint(Len(bytes)) \o bytes

\* the occurrence of field 1 that fails: in a map the value of an entry, in
\* a packed block the element after the element 1
BadOccurrence(sch) ==
  IF sch.msg.nested_type # <<>>
  THEN Block(1, ItemBytes(ScalarItem(1, sch.msg.nested_type[1].field[1].type,
                                     CHOOSE k \in MapSamples(sch.msg.nested_type[1].field[1].type) :
                                       TRUE))
                \o write_tag(2, get_wire_type(sch.msg.nested_type[1].field[2].type))
                \o BadPayload(sch.msg.nested_type[1].field[2].type,
                              sch.msg.nested_type[1].field[2].type_name))
  ELSE IF is_field_packed(sch.msg.field[1], sch.syn)
  THEN Block(1, PayloadBytes(WireTypeOf(sch.msg.field[1].type), DataOf(sch.msg.field[1].type, 1))
                \o BadPayload(sch.msg.field[1].type, sch.msg.field[1].type_name))
  ELSE write_tag(1, get_wire_type(sch.msg.field[1].type))
       \o BadPayload(sch.msg.field[1].type, sch.msg.field[1].type_name)

AbortPool(sch) ==
  (IF sch.msg.nested_type # <<>>
   THEN {EntryItem(1, sch.msg.nested_type[1].field[1].type, k,
                   sch.msg.nested_type[1].field[2].type, v) :
           k \in MapSamples(sch.msg.nested_type[1].field[1].type),
           v \in MapSamples(sch.msg.nested_type[1].field[2].type)}
   ELSE IF LastComponent(sch.msg.field[1].type_name) = "Middle"
   THEN {Item(1, WIRE_TYPE_LENGTH_DELIMITED, <<10, 2, 8, 1>>, <<<<10, 2, 8, 1>>>>)}
   ELSE {ScalarItem(1, sch.msg.field[1].type, v) : v \in SampleValues(sch.msg.field[1].type)})
  \cup {Item(9, WIRE_TYPE_VARINT, <<1>>, <<>>)}

AbortInit ==
  /\ OrderIdle
  /\ VarintIdle
  /\ SerIdle
  /\ \E sch \in AbortSchemas :
       \E items \in SeqsUpTo(AbortPool(sch), MaxItems) :
         \E bad \in {<<>>, BadOccurrence(sch) \o ItemBytes(Item(9, WIRE_TYPE_VARINT, <<1>>, <<>>))} :
           /\ syntax = sch.syn
           /\ message = sch.msg
           /\ wire = items
           /\ stream = WireBytes(items) \o bad
           /\ value = DefaultMessage(sch.msg, sch.syn)
  /\ parse_ret = "none"
  /\ map_order = <<>>
  /\ out = <<>>
  /\ cpc = "parse"

SpecAbort == AbortInit /\ [][CodecNext]_vars

(***************************************************************************)
(* Properties of the emitted serializers.                                  *)
(***************************************************************************)
\* C1: a repeated field of packable type, whatever its declared packing, is
\* parsed from a packed block and from unpacked occurrences alike: parse
\* succeeds and the field holds the elements that were sent.
C1_PackedAndUnpackedAccepted ==
  (cpc # "parse" /\ message.field[1].label = "LABEL_REPEATED") =>
    /\ parse_ret = "true"
    /\ value.fields[message.field[1].name] = Elements(wire)

\* C3: after decode, a oneof is written as the occurrence of the member that
\* was decoded last, with that member's field number and payload, and as
\* nothing when no member was decoded.
C3_OneofWritesHeldMember ==
  (cpc = "end" /\ message.oneof_decl = <<"choice">>) =>
    out = IF wire = <<>> THEN <<>> ELSE ItemBytes(Last(wire))

\* C4: a proto3 message whose implicit singular non-message field is at its
\* zero value serializes to no bytes.
C4_ZeroValueOmitted ==
  (/\ cpc = "end"
   /\ syntax = "proto3"
   /\ message.field[1].label = "LABEL_OPTIONAL"
   /\ ~message.field[1].proto3_optional
   /\ message.field[1].type # "TYPE_MESSAGE"
   /\ message.oneof_decl = <<>>
   /\ value.fields[message.field[1].name] = DefaultField(message.field[1], syntax))
  => out = <<>>

\* one map entry starts at pos: the outer tag, a length, and within exactly
\* that many bytes the key as field 1 and the value as field 2; v is the
\* position behind the entry
EntryFramed(s, pos, number) ==
  LET t == read_tag(s, pos)
      n == read_varint(s, t.pos)
      k == read_tag(s, n.pos)
      kr == skip_field(k.v[2], s, k.pos)
      v == read_tag(s, kr.pos)
      vr == skip_field(v.v[2], s, v.pos)
  IN IF /\ t.ok /\ t.v = <<number, WIRE_TYPE_LENGTH_DELIMITED>>
        /\ n.ok
        /\ k.ok /\ k.v[1] = 1 /\ kr.ok
        /\ v.ok /\ v.v[1] = 2 /\ vr.ok
        /\ vr.pos = n.pos + n.v
     THEN [ok |-> TRUE, v |-> 0, pos |-> vr.pos]
     ELSE Failed(pos)

\* the bytes of s from pos on are count framed entries and nothing else
RECURSIVE EntriesFramed(_, _, _, _)
EntriesFramed(s, pos, number, count) ==
  IF count = 0 THEN pos = Len(s)
  ELSE LET e == EntryFramed(s, pos, number)
       IN e.ok /\ EntriesFramed(s, e.pos, number, count - 1)

\* C5: a map is written as one occurrence per entry, each with an entry
\* length equal to the bytes of its key and value sub-fields.
C5_MapEntryLengthExact ==
  (cpc = "end" /\ message.nested_type # <<>>) =>
    EntriesFramed(out, 0, message.field[1].number,
                  Cardinality(value.fields[message.field[1].name]))

EndsWith(s, suffix) ==
  /\ Len(suffix) <= Len(s)
  /\ SubSeq(s, Len(s) - Len(suffix) + 1, Len(s)) = suffix

\* the occurrences of fields the schema has no field for
UnknownItems(items) ==
  SelectSeq(items, LAMBDA it : \A i \in 1..Len(message.field) : message.field[i].number # it.number)

\* C2: every occurrence of an unknown field is appended to unknown_fields
\* with its number, wire type and payload, and written back by serialize.
C2_UnknownFieldsKept ==
  (cpc # "parse" /\ ~Truncated /\ parse_ret = "true") =>
    /\ value.unknown_fields =
         [i \in 1..Len(UnknownItems(wire)) |->
            UnknownField(UnknownItems(wire)[i].number, UnknownItems(wire)[i].wire_type,
                         UnknownItems(wire)[i].data)]
    /\ cpc = "end" => EndsWith(out, WireBytes(UnknownItems(wire)))

\* the bytes of s from pos on are whole field occurrences: the stream ends
\* at a field boundary
RECURSIVE AtFieldBoundary(_, _)
AtFieldBoundary(s, pos) ==
  \/ pos = Len(s)
  \/ LET t == read_tag(s, pos)
         r == skip_field(t.v[2], s, t.pos)
     IN t.ok /\ r.ok /\ AtFieldBoundary(s, r.pos)

\* C6: parse returns true only for a stream that is exhausted at a field
\* boundary; a tag that cannot be read makes it return false.
C6_TagFailureIsFailure ==
  (cpc # "parse" /\ parse_ret = "true") => AtFieldBoundary(stream, 0)

\* the types of the fields of a message: of a plain field and a oneof member
\* the declared type, of a map field the type of the map's values
FieldMessageTypes(msg) ==
  {msg.field[i].type_name :
     i \in {j \in 1..Len(msg.field) :
              msg.field[j].type = "TYPE_MESSAGE" /\ ~IsMapTyped(msg, msg.field[j])}}
  \cup
  {EntryField(MapEntryByName(msg, LastComponent(msg.field[i].type_name)), 2)[1].type_name :
     i \in {j \in 1..Len(msg.field) : IsMapTyped(msg, msg.field[j])}}

\* message a has a field, oneof member or map value of the type of message b
HasFieldOfType(a, b) == TopRef(b.name) \in FieldMessageTypes(a)

\* the dependency graph by HasFieldOfType, self-references left out
TypeGraph ==
  [x \in Range(MsgNames(messages)) |->
     {y \in Range(MsgNames(messages)) \ {x} :
        HasFieldOfType(MsgByName(messages, x), MsgByName(messages, y))}]

\* C10: a message depends on every other message of the file that is the
\* type of one of its fields, oneof members or map values, and when the
\* graph is acyclic comes after it in the result.
C10_FieldTypesAreDependencies ==
  pc = "done" =>
    \A x \in DOMAIN TypeGraph : \A y \in TypeGraph[x] :
      /\ y \in dependencies[x]
      /\ ~HasCycle(TypeGraph) => ResultPos(y) < ResultPos(x)

\* the packing the claim states: a repeated field of packable type with the
\* option packed = true, or without the option under proto3
PackedAsStated(field, syn) ==
  /\ field.label = "LABEL_REPEATED"
  /\ field.type \in NumericTypes
  /\ \/ field.packed = "true"
     \/ field.packed = "unset" /\ syn = "proto3"

\* C11: is_field_packed is true exactly for a repeated field of packable
\* type that has packed = true or has no packed option under proto3; the
\* two copies of the function agree on it.
C11_PackedExactlyWhenStated ==
  /\ is_field_packed(message.field[1], syntax) <=> PackedAsStated(message.field[1], syntax)
  /\ CppGenerator_is_field_packed(message.field[1], syntax)
       <=> PackedAsStated(message.field[1], syntax)

\* a proto3 field with packed = false has been written unpacked, one tag per
\* element
C11_Witness ==
  /\ cpc = "end"
  /\ syntax = "proto3"
  /\ message.field[1].packed = "false"
  /\ Len(wire) = 2
  /\ out = WireBytes(UnpackedForm(1, message.field[1].type, value.fields.r))

\* the bare values of the elements xs of a type, one after the other
BareValues(type, xs) ==
  Flatten([i \in 1..Len(xs) |-> PayloadBytes(WireTypeOf(type), DataOf(type, xs[i]))])

\* C12: a packed repeated field is written as nothing when it is empty and
\* otherwise as one LENGTH_DELIMITED tag, the byte count of the bare element
\* values as a varint, and the bare element values.
C12_PackedBlockWritten ==
  (cpc = "end" /\ is_field_packed(message.field[1], syntax)) =>
    out = IF value.fields.r = <<>> THEN <<>>
          ELSE write_tag(message.field[1].number, WIRE_TYPE_LENGTH_DELIMITED)
               \o write_varint(Len(BareValues(message.field[1].type, value.fields.r)))
               \o BareValues(message.field[1].type, value.fields.r)

\* a packed sint32 field with two elements, the first negative, was written
C12_Witness ==
  /\ cpc = "end"
  /\ is_field_packed(message.field[1], syntax)
  /\ message.field[1].type = "TYPE_SINT32"
  /\ Len(value.fields.r) = 2
  /\ value.fields.r[1] = -1
  /\ Len(out) = 5

\* explicit presence as the claim states it
PresenceAsStated(field, syn) ==
  \/ syn = "proto2" /\ field.label \in {"LABEL_OPTIONAL", "LABEL_REQUIRED"}
  \/ syn = "proto3" /\ field.proto3_optional

UnionMembers(msg) ==
  UNION {Range(extract_oneofs_from_message(msg)[i].fields) :
           i \in 1..Len(extract_oneofs_from_message(msg))}

\* C14: a proto3 optional field is a plain optional field (returned by
\* get_non_oneof_fields, uses_optional true, in no OneofInfo, its synthetic
\* oneof no OneofInfo and no member of the struct); every other field with a
\* oneof_index is a member of the OneofInfo of its oneof and no plain field.
C14_SyntheticOneofIsNoUnion ==
  \A i \in 1..Len(message.field) :
    LET f == message.field[i]
    IN /\ (f.oneof_index # NoOneof /\ f.proto3_optional) =>
            /\ f \in Range(get_non_oneof_fields(message))
            /\ uses_optional(f, syntax)
            /\ f \notin UnionMembers(message)
            /\ \A k \in 1..Len(extract_oneofs_from_message(message)) :
                 extract_oneofs_from_message(message)[k].name # message.oneof_decl[f.oneof_index + 1]
            /\ message.oneof_decl[f.oneof_index + 1] \notin DOMAIN value.fields
            /\ value.fields[f.name] \in {<<>>, <<0>>}
       /\ (f.oneof_index # NoOneof /\ ~f.proto3_optional) =>
            /\ f \notin Range(get_non_oneof_fields(message))
            /\ \E k \in 1..Len(extract_oneofs_from_message(message)) :
                 /\ extract_oneofs_from_message(message)[k].name = message.oneof_decl[f.oneof_index + 1]
                 /\ f \in Range(extract_oneofs_from_message(message)[k].fields)

\* a proto3 message with a real oneof and an optional field has parsed and
\* written an occurrence of each
C14_Witness ==
  /\ cpc = "end"
  /\ syntax = "proto3"
  /\ message.oneof_decl = <<"choice", "_a">>
  /\ value.fields.a = <<0>>
  /\ value.fields.choice.v = 1
  /\ Len(out) = 4

\* the member of the oneof with the number of an occurrence
MemberOf(item) ==
  message.field[CHOOSE i \in 1..Len(message.field) : message.field[i].number = item.number]

\* the submessage that the bytes of a length-delimited payload encode
Submessage(type_name, bytes) ==
  ParseFrom(ResolveMessage(type_name), syntax, bytes, 0,
            DefaultMessage(ResolveMessage(type_name), syntax)).value

\* the value an occurrence carries for its member
MemberValue(item) ==
  IF MemberOf(item).type = "TYPE_MESSAGE"
  THEN Submessage(MemberOf(item).type_name, item.elems[1])
  ELSE item.elems[1]

\* C15: after parse of occurrences of the members of a oneof, in any
\* sequence, the oneof holds the value of the last occurrence, as the type of
\* its member, and parse has returned true.
C15_LastOneofMemberWins ==
  (cpc # "parse" /\ message.oneof_decl = <<"choice">>) =>
    /\ parse_ret = "true"
    /\ \/ wire = <<>> /\ value.fields.choice = monostate
       \/ /\ wire # <<>>
          /\ value.fields.choice.T = _get_oneof_field_cpp_type(MemberOf(Last(wire)))
          /\ value.fields.choice.v = MemberValue(Last(wire))

\* the occurrences of the fields of the schema
KnownItems(items) ==
  SelectSeq(items, LAMBDA it : \E i \in 1..Len(message.field) : message.field[i].number = it.number)

\* the last of the entries with key k
LastWithKey(entries, k) ==
  entries[CHOOSE i \in 1..Len(entries) :
            /\ entries[i].elems[1] = k
            /\ \A j \in 1..Len(entries) : entries[j].elems[1] = k => j <= i]

\* the payload of an occurrence of a singular field merged into what the
\* occurrences before it left: the last payload that sets a field
MergedPayload(known) ==
  IF SelectSeq(known, LAMBDA it : it.elems[1] # <<>>) = <<>> THEN <<>>
  ELSE Last(SelectSeq(known, LAMBDA it : it.elems[1] # <<>>)).elems[1]

\* what the field of type Inner holds after the occurrences of wire
ExpectedNested ==
  IF message.nested_type # <<>>
  THEN {<<k, Submessage(message.nested_type[1].field[2].type_name,
                        LastWithKey(KnownItems(wire), k).elems[2])>> :
          k \in {KnownItems(wire)[i].elems[1] : i \in 1..Len(KnownItems(wire))}}
  ELSE IF message.field[1].label = "LABEL_REPEATED"
  THEN [i \in 1..Len(KnownItems(wire)) |->
          Submessage(message.field[1].type_name, KnownItems(wire)[i].elems[1])]
  ELSE IF uses_optional(message.field[1], syntax)
  THEN IF KnownItems(wire) = <<>> THEN <<>>
       ELSE <<Submessage(message.field[1].type_name, Last(KnownItems(wire)).elems[1])>>
  ELSE Submessage(message.field[1].type_name, MergedPayload(KnownItems(wire)))

\* tag, length of the bytes of the submessage, and exactly those bytes
Framed(number, sub) ==
  write_tag(number, WIRE_TYPE_LENGTH_DELIMITED) \o write_varint(Len(sub)) \o sub

\* what serialize writes for the field of type Inner
ExpectedNestedBytes ==
  IF message.nested_type # <<>>
  THEN Flatten([i \in 1..Len(map_order.m) |->
                  Framed(1, ItemBytes(ScalarItem(1, "TYPE_INT32", map_order.m[i]))
                            \o Framed(2, LastWithKey(KnownItems(wire), map_order.m[i]).elems[2]))])
  ELSE IF message.field[1].label = "LABEL_REPEATED"
  THEN Flatten([i \in 1..Len(KnownItems(wire)) |-> Framed(1, KnownItems(wire)[i].elems[1])])
  ELSE IF uses_optional(message.field[1], syntax)
  THEN IF KnownItems(wire) = <<>> THEN <<>> ELSE Framed(1, Last(KnownItems(wire)).elems[1])
  ELSE Framed(1, MergedPayload(KnownItems(wire)))

\* C16: a message-typed field (singular, optional, repeated element, map
\* value) is read from exactly the bytes its length announces, parse
\* returning false when the stream has fewer and the bytes after the
\* submessage staying with the enclosing message; it is written as tag,
\* length of the serialized submessage and those bytes.
C16_SubmessageFramed ==
  /\ (cpc # "parse" /\ ~Truncated) =>
       /\ parse_ret = "true"
       /\ value.fields[message.field[1].name] = ExpectedNested
       /\ Len(value.unknown_fields) = Len(UnknownItems(wire))
  /\ (cpc # "parse" /\ ~AtFieldBoundary(stream, 0)) => parse_ret = "false"
  /\ (cpc = "end" /\ ~Truncated) =>
       out = ExpectedNestedBytes \o WireBytes(UnknownItems(wire))

\* a repeated Inner field has read an element followed by an unknown field
\* and written both back
C16_Witness ==
  /\ cpc = "end"
  /\ message.field[1].label = "LABEL_REPEATED"
  /\ message.nested_type = <<>>
  /\ stream = <<10, 2, 8, 1, 72, 1>>
  /\ Len(value.fields.r) = 1
  /\ value.fields.r[1].fields.x # DefaultField(Inner.field[1], syntax)
  /\ out = stream

\* a stream cut inside the bytes of a submessage was refused
C16_WitnessShort ==
  /\ cpc # "parse"
  /\ stream = <<10, 2, 8>>
  /\ parse_ret = "false"


\* what the value v of an entry reads as
EntryValue(value_field, v) ==
  IF value_field.type = "TYPE_MESSAGE" THEN Submessage(value_field.type_name, v) ELSE v

\* for every key on the wire, the value of the last entry with that key
LastPerKey(entries, value_field) ==
  {<<k, EntryValue(value_field, LastWithKey(entries, k).elems[2])>> :
     k \in {entries[i].elems[1] : i \in 1..Len(entries)}}

\* the entries with those at i and i + 1 exchanged
Exchanged(entries, i) ==
  [j \in 1..Len(entries) |->
     IF j = i THEN entries[i + 1] ELSE IF j = i + 1 THEN entries[i] ELSE entries[j]]

\* the map M.m parsed from the entries
MapOf(entries) ==
  ParseFrom(message, syntax, WireBytes(entries), 0, DefaultMessage(message, syntax)).value.fields.m

\* C17: after parsing any sequence of map entries the map holds, for every
\* key, the value of the last entry on the wire with that key, and exchanging
\* two neighbouring entries with distinct keys leaves the parsed map the same.
C17_MapUpsert ==
  cpc # "parse" =>
    /\ parse_ret = "true"
    /\ value.fields.m = LastPerKey(wire, message.nested_type[1].field[2])
    /\ \A i \in 1..(Len(wire) - 1) :
         wire[i].elems[1] # wire[i + 1].elems[1] => MapOf(Exchanged(wire, i)) = value.fields.m

\* two entries with the same key and different values were parsed and the
\* map holds the second
C17_Witness ==
  /\ cpc # "parse"
  /\ message.nested_type[1].field[1].type = "TYPE_INT32"
  /\ message.nested_type[1].field[2].type = "TYPE_INT32"
  /\ Len(wire) = 2
  /\ wire[1].elems = <<0, 0>>
  /\ wire[2].elems = <<0, 150>>
  /\ value.fields.m = {<<0, 150>>}


\* the field numbers of the tags of the fields written to s, in order
RECURSIVE FieldNumbers(_, _)
FieldNumbersAfter(s, t) ==
  <<t.v[1]>> \o FieldNumbers(s, skip_field(t.v[2], s, t.pos).pos)

FieldNumbers(s, pos) ==
  IF pos >= Len(s) THEN <<>> ELSE FieldNumbersAfter(s, read_tag(s, pos))

\* the place of field number n in the order of emission: a regular field at
\* its place in the declaration order, then the maps, then the oneofs, then
\* what is in unknown_fields
EmissionRank(msg, n) ==
  IF \E i \in 1..Len(get_non_oneof_fields(msg)) : get_non_oneof_fields(msg)[i].number = n
  THEN CHOOSE i \in 1..Len(get_non_oneof_fields(msg)) : get_non_oneof_fields(msg)[i].number = n
  ELSE IF \E i \in 1..Len(extract_maps_from_message(msg)) :
            extract_maps_from_message(msg)[i].number = n
  THEN Len(msg.field)
       + (CHOOSE i \in 1..Len(extract_maps_from_message(msg)) :
            extract_maps_from_message(msg)[i].number = n)
  ELSE IF \E i \in 1..Len(extract_oneofs_from_message(msg)) :
            \E j \in 1..Len(extract_oneofs_from_message(msg)[i].fields) :
              extract_oneofs_from_message(msg)[i].fields[j].number = n
  THEN 2 * Len(msg.field)
       + (CHOOSE i \in 1..Len(extract_oneofs_from_message(msg)) :
            \E j \in 1..Len(extract_oneofs_from_message(msg)[i].fields) :
              extract_oneofs_from_message(msg)[i].fields[j].number = n)
  ELSE 3 * Len(msg.field) + 1

\* C18: serialize writes the regular fields in declaration order, then the
\* map fields, then the oneofs, and value.unknown_fields only after every
\* known field.
C18_UnknownFieldsLast ==
  cpc = "end" =>
    /\ AtFieldBoundary(out, 0)
    /\ \A i, j \in 1..Len(FieldNumbers(out, 0)) :
         i < j =>
           /\ EmissionRank(message, FieldNumbers(out, 0)[i])
                <= EmissionRank(message, FieldNumbers(out, 0)[j])
           /\ EmissionRank(message, FieldNumbers(out, 0)[j]) <= Len(message.field)
                => EmissionRank(message, FieldNumbers(out, 0)[i])
                     < EmissionRank(message, FieldNumbers(out, 0)[j])
    /\ Cardinality({i \in 1..Len(FieldNumbers(out, 0)) :
                      EmissionRank(message, FieldNumbers(out, 0)[i]) > 3 * Len(message.field)})
         = Len(value.unknown_fields)
    /\ \A i \in 1..Len(wire) :
         EmissionRank(message, wire[i].number) <= 2 * Len(message.field)
           => \E j \in 1..Len(FieldNumbers(out, 0)) : FieldNumbers(out, 0)[j] = wire[i].number

\* the unknown field 9 arrived before the field d, which is declared before
\* the field a; serialize wrote d, then the unknown field
C18_Witness ==
  /\ cpc = "end"
  /\ Len(wire) = 2
  /\ wire[1].number = 9
  /\ wire[2].number = 4
  /\ Len(message.field) >= 2
  /\ message.field[1].name = "d"
  /\ message.field[2].name = "a"
  /\ FieldNumbers(out, 0) = <<4, 9>>

\* both regular fields were written, in declaration order, against the order
\* of their numbers and of their arrival
C18_WitnessDeclared ==
  /\ cpc = "end"
  /\ Len(message.field) >= 2
  /\ message.field[1].name = "d"
  /\ message.field[2].name = "a"
  /\ Len(wire) = 2
  /\ wire[1].number = 1
  /\ wire[2].number = 4
  /\ FieldNumbers(out, 0) = <<4, 1>>


\* the bytes at the head of s that have the continuation bit set
RECURSIVE LeadingContinuation(_)
LeadingContinuation(s) ==
  IF s = <<>> \/ Head(s) < 128 THEN 0 ELSE 1 + LeadingContinuation(Tail(s))

\* the loop emitted for a captured unknown varint combines at most 10 bytes
EmittedLoopBounded ==
  vpc = "end" =>
    /\ varint_used <= 10
    /\ LeadingContinuation(varint_data) >= 10 => varint_used = 10

\* C19: a varint of more than 10 bytes without a terminating byte is
\* malformed: ProtoParser._read_varint returns no value for data that starts
\* with 11 or more continuation bytes, and the loop emitted for a captured
\* unknown varint never combines more than 10 bytes.
C19_MalformedVarint ==
  /\ LeadingContinuation(varint_data) >= 11 => varint_ret = <<>>
  /\ EmittedLoopBounded


\* the write method and the read method selected for a type
ZigZagTypes == {"TYPE_SINT32", "TYPE_SINT64"}

\* the bytes the selected write method writes for v
ScalarBytes(type, v) == WriterCall(get_serialization_method(type), v)

TaggedScalar(number, type, v) == write_tag(number, get_wire_type(type)) \o ScalarBytes(type, v)

\* the tables: the zigzag pair for the zigzag types and for no other, the
\* plain varint pair for the varint types
MethodsAsStated ==
  /\ get_serialization_method("TYPE_SINT32") = "write_sint32"
  /\ get_deserialization_method("TYPE_SINT32") = "read_sint32"
  /\ get_serialization_method("TYPE_SINT64") = "write_sint64"
  /\ get_deserialization_method("TYPE_SINT64") = "read_sint64"
  /\ \A type \in ScalarTypes \ ZigZagTypes :
       /\ get_serialization_method(type) \notin {"write_sint32", "write_sint64"}
       /\ get_deserialization_method(type) \notin {"read_sint32", "read_sint64"}
  /\ \A type \in VarintTypes :
       /\ get_serialization_method(type) = "write_varint"
       /\ get_deserialization_method(type) = "read_varint"

\* the selected read method, applied to what the selected write method wrote,
\* consumes exactly those bytes and yields the value written
ReadInvertsWrite ==
  \A type \in ScalarTypes :
    \A v \in SampleValues(type) :
      /\ ReadScalar(type, ScalarBytes(type, v), 0).ok
      /\ ReadScalar(type, ScalarBytes(type, v), 0).pos = Len(ScalarBytes(type, v))
      /\ ReadScalar(type, ScalarBytes(type, v), 0).v = v
      /\ ScalarBytes(type, v) = PayloadBytes(WireTypeOf(type), DataOf(type, v))

\* what the field holds after the occurrences of wire: the values sent
ScalarsHeld ==
  IF message.nested_type # <<>>
  THEN value.fields.m = LastPerKey(wire, message.nested_type[1].field[2])
  ELSE IF message.oneof_decl = <<"choice">>
  THEN IF wire = <<>> THEN value.fields.choice = monostate
       ELSE /\ value.fields.choice.T = _get_oneof_field_cpp_type(message.field[1])
            /\ value.fields.choice.v = Last(wire).elems[1]
  ELSE IF message.field[1].label = "LABEL_REPEATED"
  THEN value.fields.r = Elements(wire)
  ELSE IF uses_optional(message.field[1], syntax)
  THEN value.fields.s = IF wire = <<>> THEN <<>> ELSE <<Last(wire).elems[1]>>
  ELSE value.fields.s = IF wire = <<>> THEN DefaultField(message.field[1], syntax)
                        ELSE Last(wire).elems[1]

\* the entries of the map as written: tag, the length byte as it stands in
\* bytes, then key and value by their write methods
RECURSIVE EntriesWritten(_, _, _)
EntryThen(keys, bytes, p, seg) == seg \o EntriesWritten(Tail(keys), bytes, p + Len(seg))

EntriesWritten(keys, bytes, p) ==
  IF keys = <<>> THEN <<>>
  ELSE IF p + 2 > Len(bytes) THEN <<-1>>
  ELSE EntryThen(keys, bytes, p,
                 write_tag(message.field[1].number, WIRE_TYPE_LENGTH_DELIMITED)
                 \o <<bytes[p + 2]>>
                 \o TaggedScalar(1, message.nested_type[1].field[1].type, Head(keys))
                 \o TaggedScalar(2, message.nested_type[1].field[2].type,
                                 MapGet(value.fields.m, Head(keys))))

\* what serialize writes for the values held, each by its write method
ScalarsWritten ==
  IF message.nested_type # <<>>
  THEN EntriesWritten(map_order.m, out, 0)
  ELSE IF message.oneof_decl = <<"choice">>
  THEN IF wire = <<>> THEN <<>>
       ELSE TaggedScalar(1, message.field[1].type, Last(wire).elems[1])
  ELSE IF message.field[1].label = "LABEL_REPEATED"
  THEN IF is_field_packed(message.field[1], syntax)
       THEN IF Elements(wire) = <<>> THEN <<>>
            ELSE write_tag(1, WIRE_TYPE_LENGTH_DELIMITED)
                 \o write_varint(Len(Flatten([i \in 1..Len(Elements(wire)) |->
                                     ScalarBytes(message.field[1].type, Elements(wire)[i])])))
                 \o Flatten([i \in 1..Len(Elements(wire)) |->
                               ScalarBytes(message.field[1].type, Elements(wire)[i])])
       ELSE Flatten([i \in 1..Len(Elements(wire)) |->
                       TaggedScalar(1, message.field[1].type, Elements(wire)[i])])
  ELSE IF wire = <<>> THEN <<>>
  ELSE IF ~uses_optional(message.field[1], syntax)
          /\ Last(wire).elems[1] = DefaultField(message.field[1], syntax)
  THEN <<>>
  ELSE TaggedScalar(1, message.field[1].type, Last(wire).elems[1])

\* C20: zigzag is selected for sint32 and sint64 alone and plain varint for
\* int32, int64, uint32, uint64 and bool; for every scalar type the selected
\* read method inverts the selected write method, and the singular,
\* optional, repeated, packed, map and oneof paths read and write their
\* values by these methods.
C20_ReadInvertsWrite ==
  /\ MethodsAsStated
  /\ ReadInvertsWrite
  /\ cpc # "parse" => parse_ret = "true" /\ ScalarsHeld
  /\ cpc = "end" => out = ScalarsWritten

\* a map with sint32 values has read the value -1 from its zigzag byte and
\* written it back as that byte
C20_Witness ==
  /\ cpc = "end"
  /\ message.nested_type # <<>>
  /\ message.nested_type[1].field[2].type = "TYPE_SINT32"
  /\ value.fields.m = {<<0, -1>>}
  /\ SubSeq(out, Len(out) - 1, Len(out)) = <<16, 1>>


\* the occurrences that are no groups
NonGroupItems(items) == SelectSeq(items, LAMBDA it : it.wire_type # WIRE_TYPE_START_GROUP)

\* C21: a tag of wire type START_GROUP with the number of a known field that
\* is no group is skipped as an unknown field: parse returns true, the known
\* field holds what the other occurrences give, and each group is kept in
\* unknown_fields.
C21_GroupStartSkipped ==
  cpc # "parse" =>
    /\ parse_ret = "true"
    /\ value.fields =
         ParseFrom(message, syntax, WireBytes(NonGroupItems(wire)), 0,
                   DefaultMessage(message, syntax)).value.fields
    /\ Len(value.unknown_fields) = Len(wire) - Len(NonGroupItems(wire))


\* the oneof of a message with the single oneof choice
ChoiceOneof == extract_oneofs_from_message(message)[1]

\* the members of message type
MessageMembers ==
  {i \in 1..Len(message.field) : message.field[i].type = "TYPE_MESSAGE"}

\* C22: a oneof member of message type is written as tag, varint length and
\* the bytes of the submessage, and read from exactly that many bytes: after
\* parse the oneof holds the submessage of the last occurrence and what
\* follows the member is left to the enclosing loop.
C22_OneofMessageFramed ==
  message.oneof_decl = <<"choice">> =>
    /\ \A i \in MessageMembers :
         \A payload \in SampleValues("TYPE_MESSAGE") :
           generate_oneof_write(ChoiceOneof, syntax,
                                [T |-> _get_oneof_field_cpp_type(message.field[i]),
                                 v |-> Submessage(message.field[i].type_name, payload)])
             = Framed(message.field[i].number, payload)
    /\ (cpc # "parse" /\ wire # <<>> /\ \E i \in 1..Len(wire) :
                                          MemberOf(wire[i]).type = "TYPE_MESSAGE") =>
         /\ parse_ret = "true"
         /\ value.fields.choice.T = _get_oneof_field_cpp_type(MemberOf(Last(wire)))
         /\ value.fields.choice.v = MemberValue(Last(wire))


\* C23: a read case whose payload read or nested parse fails makes parse
\* return false at once, through every level of nesting: nothing after the
\* failing occurrence is processed, and the message holds what the
\* occurrences ahead of it gave (of a packed block the elements read before
\* the failing one besides).
C23_FailureAborts ==
  cpc # "parse" =>
    IF Truncated
    THEN /\ parse_ret = "false"
         /\ Len(value.unknown_fields) = Len(UnknownItems(wire))
         /\ IF is_field_packed(message.field[1], syntax)
            THEN value.fields.r = Elements(wire) \o <<1>>
            ELSE value.fields =
                   ParseFrom(message, syntax, WireBytes(wire), 0,
                             DefaultMessage(message, syntax)).value.fields
    ELSE parse_ret = "true"

\* a submessage two levels down could not be read: parse of the message at
\* the top has returned false and the unknown field behind it was not taken
C23_Witness ==
  /\ cpc # "parse"
  /\ LastComponent(message.field[1].type_name) = "Middle"
  /\ message.field[1].label = "LABEL_OPTIONAL"
  /\ Len(wire) = 1
  /\ wire[1].number = 9
  /\ stream = <<72, 1, 10, 3, 10, 1, 8, 72, 1>>
  /\ parse_ret = "false"
  /\ Len(value.unknown_fields) = 1

(***************************************************************************)
(* SerializationCodegen.generate_all_serializers: the order in which the   *)
(* serializers of a file are emitted.  A C++ qualified name is kept as the *)
(* list of its "::"-separated components ("pkg::A::C" is                   *)
(* <<"pkg", "A", "C">>).                                                   *)
(***************************************************************************)
MaxSerMsgs == 2

\* CppUtils.get_namespace_prefix(file_proto.package)
get_namespace_prefix == <<Package>>

\* a reference to the message X nested in the top-level message H
NestedRef(H, X) == <<"", Package, H, X>>

\* a user-defined nested message named X: it may refer to the top-level
\* message r and may declare a nested message of its own
NestedMsg(X, r, deep) ==
  Message(X,
          IF r = "none" THEN <<>>
          ELSE <<Field("f" \o r, 1, "TYPE_MESSAGE", "LABEL_OPTIONAL", TopRef(r),
                       NoOneof, FALSE, "unset")>>,
          IF deep THEN <<Message("F", <<>>, <<>>, <<>>, FALSE)>> ELSE <<>>,
          <<>>, FALSE)

\* top-level message M with at most one message-typed field: none, a field
\* (plain or map value) of a top-level type, or a field of the type nested
\* in the message H; own lists the nested messages M declares itself
NestedFileMessage(M, target, kind, H, X, own) ==
  Message(M,
          IF target = "none" THEN <<>>
          ELSE IF target = "nested"
          THEN <<Field("n", 1, "TYPE_MESSAGE", "LABEL_OPTIONAL", NestedRef(H, X),
                       NoOneof, FALSE, "unset")>>
          ELSE <<RefField(M, target, 1, kind)>>,
          own \o (IF kind = "map" /\ target \notin {"none", "nested"}
                  THEN <<MapEntryType(target)>> ELSE <<>>),
          <<>>, FALSE)

\* the names of the top-level messages of these files
FilePool == <<"A", "B", "C", "D">>

\* the orders in which n top-level messages are declared: alphabetical, or
\* the reverse for the files without map fields
FileNames(n, kind) ==
  {SubSeq(FilePool, 1, n)}
  \cup (IF kind = "plain" THEN {[i \in 1..n |-> FilePool[n + 1 - i]]} ELSE {})

\* the schema files with nested messages: top-level messages of the given
\* names, message host (if any) declaring the nested message X
NestedFile(names, targets, kind, host, X, r, deep) ==
  [i \in 1..Len(names) |->
     NestedFileMessage(names[i], targets[i], kind,
                       IF host = 0 THEN "" ELSE names[host], X,
                       IF i = host THEN <<NestedMsg(X, r, deep)>> ELSE <<>>)]

\* the names a nested message of message host may bear: a name no top-level
\* message has, or the name of another top-level message
NestedNames(names, host) == {"E"} \cup (Range(names) \ {names[host]})

(***************************************************************************)
(* SerializationCodegen._collect_messages_depth_first                      *)
(***************************************************************************)
RECURSIVE _collect_messages_depth_first(_, _)
RECURSIVE CollectNested(_, _)
\* the loop over message.nested_type
CollectNested(nested_type, nested_prefix) ==
  IF nested_type = <<>> THEN <<>>
  ELSE (IF Head(nested_type).map_entry THEN <<>>
        ELSE _collect_messages_depth_first(Head(nested_type), nested_prefix))
       \o CollectNested(Tail(nested_type), nested_prefix)

_collect_messages_depth_first(msg, ns_prefix) ==
  CollectNested(msg.nested_type, Append(ns_prefix, msg.name))
  \o <<[full_name |-> Append(ns_prefix, msg.name), msg |-> msg, prefix |-> ns_prefix]>>

\* all_msgs_list of generate_all_serializers
CollectAll(msgs, ns_prefix) ==
  Flatten([i \in 1..Len(msgs) |-> _collect_messages_depth_first(msgs[i], ns_prefix)])

FullNames(all_msgs) == [i \in 1..Len(all_msgs) |-> all_msgs[i].full_name]

\* the dict comprehension {full_name: (msg, prefix) for ...}: a key keeps
\* the place of its first insertion and the value of its last one
AsDict(list) ==
  LET names == FullNames(list)
      first == {i \in 1..Len(list) : \A j \in 1..(i - 1) : names[j] # names[i]}
      LastOf(i) == CHOOSE j \in 1..Len(list) :
                     /\ names[j] = names[i]
                     /\ \A k \in (j + 1)..Len(list) : names[k] # names[i]
  IN [i \in 1..Cardinality(first) |->
        list[LastOf(CHOOSE f \in first : Cardinality({g \in first : g < f}) = i - 1)]]

(***************************************************************************)
(* SerializationCodegen._find_message_in_all_msgs                          *)
(***************************************************************************)
\* msg_name.endswith('::' + cpp_type)
EndsWithQualified(msg_name, cpp_type) ==
  /\ cpp_type # <<>>
  /\ Len(msg_name) > Len(cpp_type)
  /\ SubSeq(msg_name, Len(msg_name) - Len(cpp_type) + 1, Len(msg_name)) = cpp_type

\* type_name with the package prefix removed
StripPackage(type_name) ==
  IF Len(type_name) >= 2 /\ type_name[1] = Package THEN Tail(type_name) ELSE type_name

\* the lookups that follow the loop, for a simple name: a sibling in the
\* parent of the current message, then the name under the namespace prefix
FindSimpleName(cpp_type, names, current_msg) ==
  IF Len(cpp_type) # 1 THEN <<>>
  ELSE IF Len(current_msg) > 1
          /\ SubSeq(current_msg, 1, Len(current_msg) - 1) \o cpp_type \in Range(names)
  THEN SubSeq(current_msg, 1, Len(current_msg) - 1) \o cpp_type
  ELSE IF get_namespace_prefix \o cpp_type \in Range(names)
  THEN get_namespace_prefix \o cpp_type
  ELSE <<>>

\* the first key of all_msgs, in insertion order, that equals cpp_type or
\* ends with '::' + cpp_type; <<>> is the empty string returned on failure
_find_message_in_all_msgs(type_name, all_msgs, current_msg) ==
  LET cpp_type == StripPackage(StripLeadingDot(type_name))
      names == FullNames(all_msgs)
      hits == {i \in 1..Len(names) : names[i] = cpp_type \/ EndsWithQualified(names[i], cpp_type)}
  IN IF hits # {} THEN names[CHOOSE i \in hits : \A j \in hits : i <= j]
     ELSE FindSimpleName(cpp_type, names, current_msg)

(***************************************************************************)
(* SerializationCodegen._build_dependency_graph                            *)
(***************************************************************************)
\* the nested types a message depends on
NestedDeps(entry, all_msgs) ==
  {Append(entry.full_name, entry.msg.nested_type[i].name) : i \in
     {j \in 1..Len(entry.msg.nested_type) :
        /\ ~entry.msg.nested_type[j].map_entry
        /\ Append(entry.full_name, entry.msg.nested_type[j].name)
             \in Range(FullNames(all_msgs))}}

\* the types of its fields a message depends on
FieldDeps(entry, all_msgs) ==
  {_find_message_in_all_msgs(entry.msg.field[i].type_name, all_msgs, entry.full_name) :
     i \in {j \in 1..Len(entry.msg.field) : entry.msg.field[j].type = "TYPE_MESSAGE"}}
  \ {<<>>, entry.full_name}

_build_dependency_graph(all_msgs) ==
  [name \in Range(FullNames(all_msgs)) |->
     LET entry == all_msgs[IndexOf(FullNames(all_msgs), name)]
     IN NestedDeps(entry, all_msgs) \cup FieldDeps(entry, all_msgs)]

(***************************************************************************)
(* SerializationCodegen._topological_sort                                  *)
(***************************************************************************)
\* the order of Python's str on the names of the model: the components
\* after the package are single capital letters, so that comparing the
\* lists of components compares the joined strings
Alphabet == <<"A", "B", "C", "D", "E", "F">>

RECURSIVE NameLess(_, _)
NameLess(a, b) ==
  IF a = <<>> THEN b # <<>>
  ELSE IF b = <<>> THEN FALSE
  ELSE IF Head(a) = Head(b) THEN NameLess(Tail(a), Tail(b))
  ELSE IndexOf(Alphabet, Head(a)) < IndexOf(Alphabet, Head(b))

\* sorted(deps.keys())
RECURSIVE SortedKeys(_)
SortedKeys(S) ==
  IF S = {} THEN <<>>
  ELSE LET least == CHOOSE m \in S : \A o \in S \ {m} : NameLess(m, o)
       IN <<least>> \o SortedKeys(S \ {least})

\* a set of str is iterated in the order of the hashes of its elements,
\* which differs from one interpreter process to the next: one order per set
IterationOrders(deps) ==
  {iter \in [DOMAIN deps -> UNION {Perms(deps[name]) : name \in DOMAIN deps}] :
     \A name \in DOMAIN deps : iter[name] \in Perms(deps[name])}

\* variant: visited.add(node) is left out
Leave_unmarked(node, st) ==
  [visited |-> st.visited, visiting |-> st.visiting \ {node},
   result |-> Append(st.result, node)]

\* the end of visit(node): the node leaves visiting and is appended
Leave(node, st) ==
  [visited |-> st.visited \cup {node}, visiting |-> st.visiting \ {node},
   result |-> Append(st.result, node)]

RECURSIVE visit(_, _, _, _)
RECURSIVE VisitDeps(_, _, _, _)
\* the loop "for dep in deps.get(node, [])"
VisitDeps(order, keys, iter, st) ==
  IF order = <<>> THEN st
  ELSE VisitDeps(Tail(order), keys, iter,
                 IF Head(order) \in keys THEN visit(Head(order), keys, iter, st) ELSE st)

visit(node, keys, iter, st) ==
  IF node \in st.visited \/ node \in st.visiting THEN st
  ELSE Leave(node, VisitDeps(iter[node], keys, iter,
                             [st EXCEPT !.visiting = @ \cup {node}]))

\* _topological_sort as a whole, for the iteration orders iter
RECURSIVE SortFrom(_, _, _, _)
SortFrom(nodes, keys, iter, st) ==
  IF nodes = <<>> THEN st.result
  ELSE SortFrom(Tail(nodes), keys, iter, visit(Head(nodes), keys, iter, st))

_topological_sort(deps, iter) ==
  SortFrom(SortedKeys(DOMAIN deps), DOMAIN deps, iter,
           [visited |-> {}, visiting |-> {}, result |-> <<>>])

(***************************************************************************)
(* generate_all_serializers, one step per phase and per iteration of the   *)
(* outer loop of _topological_sort; it is handed the list that             *)
(* CppUtils.topological_sort_messages returned (CppGenerator).             *)
(***************************************************************************)
EntryOf(all_msgs, name) == all_msgs[IndexOf(FullNames(all_msgs), name)]

CollectMessages ==
  /\ pc = "done"
  /\ spc = "collect"
  /\ ser_all_msgs' = AsDict(CollectAll(result, get_namespace_prefix))
  /\ spc' = "graph"
  /\ UNCHANGED <<ser_deps, ser_iter, ser_nodes, ser_visited, ser_sorted, ser_lines>>

BuildDependencyGraph ==
  /\ spc = "graph"
  /\ ser_deps' = _build_dependency_graph(ser_all_msgs)
  /\ ser_iter' \in IterationOrders(ser_deps')
  /\ ser_nodes' = SortedKeys(DOMAIN ser_deps')
  /\ spc' = "sort"
  /\ UNCHANGED <<ser_all_msgs, ser_visited, ser_sorted, ser_lines>>

VisitNode ==
  /\ spc = "sort"
  /\ ser_nodes # <<>>
  /\ LET st == visit(Head(ser_nodes), DOMAIN ser_deps, ser_iter,
                     [visited |-> ser_visited, visiting |-> {}, result |-> ser_sorted])
     IN /\ ser_visited' = st.visited
        /\ ser_sorted' = st.result
  /\ ser_nodes' = Tail(ser_nodes)
  /\ UNCHANGED <<ser_all_msgs, ser_deps, ser_iter, ser_lines, spc>>

EmitSerializers ==
  /\ spc = "sort"
  /\ ser_nodes = <<>>
  /\ ser_lines' = SelectSeq(ser_sorted, LAMBDA name : ~EntryOf(ser_all_msgs, name).msg.map_entry)
  /\ spc' = "end"
  /\ UNCHANGED <<ser_all_msgs, ser_deps, ser_iter, ser_nodes, ser_visited, ser_sorted>>

SerNext ==
  (CollectMessages \/ BuildDependencyGraph \/ VisitNode \/ EmitSerializers)
  /\ UNCHANGED <<ordVars, codecVars, varintVars>>

SerializersInit ==
  /\ CodecIdle
  /\ VarintIdle
  /\ \E n \in 1..MaxSerMsgs, kind \in {"plain", "map"} :
       \E names \in FileNames(n, kind) :
         \/ \E targets \in [1..n -> {"none"} \cup Range(names)] :
              messages = NestedFile(names, targets, kind, 0, "", "none", FALSE)
         \/ \E host \in 1..n, deep \in BOOLEAN :
              \E targets \in [1..n -> {"none", "nested"} \cup Range(names)],
                 X \in NestedNames(names, host), r \in {"none"} \cup Range(names) :
                /\ deep => X = "E"
                /\ messages = NestedFile(names, targets, kind, host, X, r, deep)
  /\ dependencies = <<>>
  /\ in_degree = <<>>
  /\ queue = <<>>
  /\ sorted_names = <<>>
  /\ result = <<>>
  /\ pc = "start"
  /\ ser_all_msgs = <<>>
  /\ ser_deps = <<>>
  /\ ser_iter = <<>>
  /\ ser_nodes = <<>>
  /\ ser_visited = {}
  /\ ser_sorted = <<>>
  /\ ser_lines = <<>>
  /\ spc = "collect"

SpecSerializers == SerializersInit /\ [][OrderNext \/ SerNext]_vars

(***************************************************************************)
(* Properties of the serializer order.                                     *)
(***************************************************************************)
\* every message declared in the file, at every depth, map entries
\* included: its qualified name and its map_entry option
RECURSIVE DeclaredIn(_, _)
DeclaredIn(msgs, scope) ==
  UNION {{[full_name |-> Append(scope, msgs[i].name), map_entry |-> msgs[i].map_entry]}
         \cup DeclaredIn(msgs[i].nested_type, Append(scope, msgs[i].name)) :
         i \in 1..Len(msgs)}

Declared == DeclaredIn(messages, get_namespace_prefix)

\* C24: generate_all_serializers emits exactly one serializer for every
\* message that is not a map entry, at every nesting depth, and none for a
\* map-entry message, whatever the dependency graph is (cycles included):
\* the emitted list has no duplicate and holds exactly the declared
\* messages that are not map entries; the outer loop of the sort visits
\* every key once, so that it ends.
C24_OneSerializerEach ==
  /\ spc = "end" =>
       /\ NoDuplicates(ser_lines)
       /\ Range(ser_lines) = {d.full_name : d \in {e \in Declared : ~e.map_entry}}
       /\ ser_nodes = <<>>
  /\ spc = "sort" =>
       /\ NoDuplicates(ser_sorted)
       /\ Range(ser_sorted) \subseteq DOMAIN ser_deps
       /\ Range(ser_nodes) \cup Range(ser_sorted) = DOMAIN ser_deps

\* a file with a cycle of dependencies, a map-entry type and a message
\* nested two levels deep has had its serializers emitted
C24_Witness ==
  /\ spc = "end"
  /\ HasCycle(ser_deps)
  /\ \E d \in Declared : d.map_entry
  /\ \E i \in 1..Len(ser_lines) : Len(ser_lines[i]) = 4

\* the dependencies the descriptors state: a message depends on the
\* messages it declares and on the messages its fields name (type_name is
\* the qualified name protoc resolved), map entries left aside
StatedDeps ==
  [name \in DOMAIN ser_deps |->
     LET entry == EntryOf(ser_all_msgs, name)
     IN ({Append(name, entry.msg.nested_type[i].name) : i \in 1..Len(entry.msg.nested_type)}
         \cup {StripLeadingDot(entry.msg.field[i].type_name) : i \in
                 {j \in 1..Len(entry.msg.field) : entry.msg.field[j].type = "TYPE_MESSAGE"}})
        \cap (DOMAIN ser_deps \ {name})]

\* the two ends of the edge from a to b lie on a common cycle
OnCommonCycle(deps, a, b) == a \in DepClosure(deps, {b})

SerPos(name) == IndexOf(ser_lines, name)

\* C25: in the emitted order every nested message precedes its parent and
\* every message type named by a field precedes the message that has the
\* field, for every such edge whose two ends are not on a common cycle.
C25_DependenciesFirst ==
  spc = "end" =>
    \A a \in DOMAIN ser_deps : \A b \in StatedDeps[a] :
      (~OnCommonCycle(StatedDeps, a, b) /\ ~OnCommonCycle(ser_deps, a, b))
        => SerPos(b) < SerPos(a)

\* C29: generate_all_serializers is deterministic: the emitted sequence is
\* fixed by the names and the dependency graph, and is the same whatever
\* the order in which the sets of deps are iterated, hence the same as the
\* sequence any other run over the same file emits.
C29_Deterministic ==
  spc = "end" =>
    \A iter \in IterationOrders(ser_deps) :
      SelectSeq(_topological_sort(ser_deps, iter),
                LAMBDA name : ~EntryOf(ser_all_msgs, name).msg.map_entry) = ser_lines

\* the top-level messages that enclose the types the fields of a top-level
\* message name: the component after the package of each qualified type
\* name, the message itself left aside
EnclosingDeps ==
  [name \in Range(MsgNames(messages)) |->
     LET msg == MsgByName(messages, name)
     IN {StripLeadingDot(msg.field[i].type_name)[2] : i \in
           {j \in 1..Len(msg.field) :
              /\ msg.field[j].type \in {"TYPE_MESSAGE", "TYPE_ENUM"}
              /\ Len(StripLeadingDot(msg.field[j].type_name)) >= 2}}
        \cap (Range(MsgNames(messages)) \ {name})]

\* C28: when the graph is acyclic, topological_sort_messages places every
\* top-level message after each top-level message that encloses a type one
\* of its fields names (a field of type Outer.Inner orders the message
\* after Outer), and takes a field type for a top-level message only when
\* it resolves to that message: the dependencies it builds are among
\* those the qualified type names state.
C28_EnclosingFirst ==
  (pc = "done" /\ ~HasCycle(EnclosingDeps) /\ ~HasCycle(dependencies)) =>
    /\ \A a \in DOMAIN EnclosingDeps : \A b \in EnclosingDeps[a] :
         ResultPos(b) < ResultPos(a)
    /\ \A a \in DOMAIN EnclosingDeps : dependencies[a] \subseteq EnclosingDeps[a]

(***************************************************************************)
(* Properties of the field classifiers.                                    *)
(***************************************************************************)
\* the classes a field of the message falls in
InRegular(msg, f) == \E i \in 1..Len(get_non_oneof_fields(msg)) : get_non_oneof_fields(msg)[i] = f

InMaps(msg, f) ==
  \E i \in 1..Len(extract_maps_from_message(msg)) :
    /\ extract_maps_from_message(msg)[i].name = f.name
    /\ extract_maps_from_message(msg)[i].number = f.number

InOneofs(msg, f) ==
  \E i \in 1..Len(OneofMembers(extract_oneofs_from_message(msg))) :
    OneofMembers(extract_oneofs_from_message(msg))[i].field = f

ClassesOf(msg, f) ==
  (IF InRegular(msg, f) THEN {"regular"} ELSE {})
  \cup (IF InMaps(msg, f) THEN {"map"} ELSE {})
  \cup (IF InOneofs(msg, f) THEN {"oneof"} ELSE {})

\* the case labels of the emitted switch, in the order of emission
CaseLabels(msg) ==
  [i \in 1..Len(get_non_oneof_fields(msg)) |-> get_non_oneof_fields(msg)[i].number]
  \o [i \in 1..Len(extract_maps_from_message(msg)) |-> extract_maps_from_message(msg)[i].number]
  \o [i \in 1..Len(OneofMembers(extract_oneofs_from_message(msg))) |->
        OneofMembers(extract_oneofs_from_message(msg))[i].field.number]

\* the preconditions: unique field numbers, map entries with key 1, value 2
WellFormed(msg) ==
  /\ \A i, j \in 1..Len(msg.field) : msg.field[i].number = msg.field[j].number => i = j
  /\ \A i \in 1..Len(msg.nested_type) :
       msg.nested_type[i].map_entry =>
         /\ EntryField(msg.nested_type[i], 1) # <<>>
         /\ EntryField(msg.nested_type[i], 2) # <<>>

\* C26: for a message with unique field numbers and well-formed map
\* entries, get_non_oneof_fields, extract_maps_from_message and
\* extract_oneofs_from_message partition message.field: every field is in
\* exactly one class, and the emitted switch has exactly one case label per
\* field number.
C26_ClassifiersPartition ==
  WellFormed(message) =>
    /\ \A i \in 1..Len(message.field) :
         Cardinality(ClassesOf(message, message.field[i])) = 1
    /\ NoDuplicates(CaseLabels(message))
    /\ Range(CaseLabels(message)) = {message.field[i].number : i \in 1..Len(message.field)}

\* the type name of the field resolves to a nested type of the message
\* that carries the map_entry option
ResolvesToOwnEntry(msg, f) ==
  /\ f.type = "TYPE_MESSAGE"
  /\ \E X \in MapEntryNames(msg) : StripLeadingDot(f.type_name) = <<Package, msg.name, X>>

\* C27: a field is classified as a map field, by is_map_field,
\* extract_maps_from_message and get_non_oneof_fields alike, if and only if
\* its type name resolves to a map-entry nested type of the same message; a
\* field of any other message type is an ordinary message field.
C27_MapIffOwnEntry ==
  \A i \in 1..Len(message.field) :
    /\ IsMapTyped(message, message.field[i]) <=> ResolvesToOwnEntry(message, message.field[i])
    /\ InMaps(message, message.field[i]) <=> ResolvesToOwnEntry(message, message.field[i])
    /\ (~IsOneofMember(message.field[i]) /\ ~ResolvesToOwnEntry(message, message.field[i]))
         => InRegular(message, message.field[i])

(***************************************************************************)
(* Blocks with a declared length of their own: the packed block of a       *)
(* repeated field and the entry of a map, field 1, sent with a declared    *)
(* length from 1 to one byte more than the input holds, after occurrences  *)
(* that are well formed and before the unknown field 9 or the end of the   *)
(* input.  wire is the occurrences ahead of the block.                     *)
(***************************************************************************)
BlockElementTypes == {"TYPE_INT32", "TYPE_SINT32", "TYPE_BOOL", "TYPE_ENUM", "TYPE_FIXED32"}

BlockSchemas ==
  {Schema(syn, RepeatedMsg(type, "true")) : syn \in Syntaxes, type \in BlockElementTypes}
  \cup {Schema(syn, MapMsg("TYPE_INT32", vt)) :
          syn \in Syntaxes, vt \in {"TYPE_INT32", "TYPE_STRING"}}

\* the well-formed blocks of the field
BlockPool(sch) ==
  IF sch.msg.nested_type # <<>>
  THEN {EntryItem(1, sch.msg.nested_type[1].field[1].type, k,
                  sch.msg.nested_type[1].field[2].type, v) :
          k \in MapSamples(sch.msg.nested_type[1].field[1].type),
          v \in MapSamples(sch.msg.nested_type[1].field[2].type)}
  ELSE {PackedItem(1, sch.msg.field[1].type, xs) :
          xs \in SeqsUpTo(SampleValues(sch.msg.field[1].type), MaxElems) \ {<<>>}}

\* the positions at which the elements of a packed block end, read one
\* after the other from pos on
RECURSIVE ElementEnds(_, _, _)
ElementEnds(wire_type, s, pos) ==
  {pos} \cup (IF pos < Len(s) /\ skip_field(wire_type, s, pos).ok
              THEN ElementEnds(wire_type, s, skip_field(wire_type, s, pos).pos)
              ELSE {})

\* the positions at which the fields of a map entry end
RECURSIVE FieldEnds(_, _)
FieldEnds(s, pos) ==
  {pos} \cup (IF /\ pos < Len(s)
                 /\ read_tag(s, pos).ok
                 /\ skip_field(read_tag(s, pos).v[2], s, read_tag(s, pos).pos).ok
              THEN FieldEnds(s, skip_field(read_tag(s, pos).v[2], s, read_tag(s, pos).pos).pos)
              ELSE {})

\* the positions inside a well-formed block at which an element (a field
\* of the entry) ends
InnerEnds(sch, block) ==
  IF sch.msg.nested_type # <<>> THEN FieldEnds(block.data, 0)
  ELSE ElementEnds(get_wire_type(sch.msg.field[1].type), block.data, 0)

\* a declared length shorter than the block cuts an element in two: were it
\* to end between two elements, the elements behind it would be fields
BlockInit ==
  /\ OrderIdle
  /\ VarintIdle
  /\ SerIdle
  /\ \E sch \in BlockSchemas :
       \E items \in SeqsUpTo(BlockPool(sch), 1), block \in BlockPool(sch),
          tail \in {<<>>, ItemBytes(Item(9, WIRE_TYPE_VARINT, <<1>>, <<>>))} :
         \E declared \in 0..(Len(block.data) + Len(tail) + 1) :
           /\ declared < Len(block.data) => declared \notin InnerEnds(sch, block)
           /\ syntax = sch.syn
           /\ message = sch.msg
           /\ wire = items
           /\ stream = WireBytes(items) \o write_tag(1, WIRE_TYPE_LENGTH_DELIMITED)
                         \o write_varint(declared) \o block.data \o tail
           /\ value = DefaultMessage(sch.msg, sch.syn)
  /\ parse_ret = "none"
  /\ map_order = <<>>
  /\ out = <<>>
  /\ cpc = "parse"

SpecBlock == BlockInit /\ [][CodecNext]_vars

\* the length prefix of the block: its value and the position behind it
DeclaredLength == read_varint(stream, Len(WireBytes(wire)) + 1)

\* the declared length lies within the input and ends where an element
\* (a field of the entry) ends
DeclaredIsExact ==
  /\ DeclaredLength.pos + DeclaredLength.v <= Len(stream)
  /\ DeclaredLength.pos + DeclaredLength.v \in
       (IF message.nested_type # <<>>
        THEN FieldEnds(stream, DeclaredLength.pos)
        ELSE ElementEnds(get_wire_type(message.field[1].type), stream, DeclaredLength.pos))

\* C30: the packed branch of a repeated field's read case, and the entry
\* loop of a map read case, consume exactly the declared length: a block
\* whose last element extends beyond the declared length, or whose declared
\* length exceeds the remaining input, makes parse return false.
C30_DeclaredLengthExact ==
  (cpc # "parse" /\ ~DeclaredIsExact) => parse_ret = "false"

====
